---- MODULE Spec2Model ----
(***************************************************************************)
(* createAsyncThunk (packages/toolkit/src/createAsyncThunk.ts): the        *)
(* lifecycle of one thunk invocation, at the granularity of JavaScript     *)
(* jobs.  Every action of the model is one synchronous run: the call of    *)
(* the thunk, one promise reaction job taken from the head of the          *)
(* microtask queue, or one run of caller code (abort(), unwrap(), the      *)
(* settlement of the promise of `condition` or of the payload creator).    *)
(***************************************************************************)
EXTENDS Integers, Sequences, FiniteSets, TLC

VARIABLES
    task,               \* the options given to createAsyncThunk
    native,             \* typeof AbortController !== 'undefined'
    production,         \* process.env.NODE_ENV === 'production'
    inv,                \* per invocation: the closure of the thunk call
    log,                \* every call of the store's dispatch, in order
    queue,              \* the microtask (promise job) queue
    displayedWarning,   \* `let displayedWarning` of each createAsyncThunk call
    console,            \* the number of console.info / console.warn calls so far
    \* createReducer (unnamed/part_000) and createSlice (createSlice.ts)
    options,            \* the arguments given to createReducer or createSlice
    _reducer,           \* the reducer built from them (createSlice: `let _reducer`)
    hasWarnedAboutObjectNotation,   \* the flag of that name in createSlice.ts
    state,              \* the state the store holds for the reducer
    calls,              \* history: the case reducers the last call ran, in order
    reads,              \* history: how often the lazy initializer has run
    builds,             \* history: how often buildReducer() has run
    out                 \* history: what the last call returned or threw

rvars == <<options, _reducer, hasWarnedAboutObjectNotation, state, calls, reads,
           builds, out>>

vars == <<task, native, production, inv, log, queue, displayedWarning, console,
          options, _reducer, hasWarnedAboutObjectNotation, state, calls, reads,
          builds, out>>

\* ------------------------------------------------------------- bounds
MaxAborts == 2          \* abort() calls made by caller code per invocation

\* ------------------------------------------------------ JavaScript values
Undef == [t |-> "undefined"]
Null == [t |-> "null"]
Num(n) == [t |-> "number", n |-> n]
Str(s) == [t |-> "string", s |-> s]
Bool(b) == [t |-> "boolean", b |-> b]
Obj(f) == [t |-> "object", f |-> f]

EmptyObject == [k \in {} |-> Undef]

\* class RejectWithValue / class FulfillWithMeta: `instanceof` is the tag.
RejectWithValue(payload, meta) ==
    [t |-> "RejectWithValue", payload |-> payload, meta |-> meta]

FulfillWithMeta(payload, meta) ==
    [t |-> "FulfillWithMeta", payload |-> payload, meta |-> meta]

\* ToBoolean: the falsy values of the model's universe.
Falsy(v) ==
    \/ v.t \in {"undefined", "null"}
    \/ v.t = "number" /\ v.n = 0
    \/ v.t = "string" /\ v.s = ""
    \/ v.t = "boolean" /\ ~v.b

\* String(value) for the primitives of the model's universe.
StringOf(v) ==
    CASE v.t = "string" -> v.s
      [] v.t = "undefined" -> "undefined"
      [] v.t = "null" -> "null"
      [] v.t = "boolean" -> (IF v.b THEN "true" ELSE "false")
      [] v.t = "number" -> (CASE v.n = 0 -> "0" [] v.n = 7 -> "7"
                              [] v.n = 42 -> "42" [] OTHER -> "NaN")
      [] OTHER -> "[object Object]"

\* The own properties of a value that is `typeof value === 'object'`.
Props(v) ==
    IF v.t = "object" THEN v.f
    ELSE IF v.t \in {"RejectWithValue", "FulfillWithMeta"}
         THEN [payload |-> v.payload, meta |-> v.meta]
         ELSE EmptyObject

\* value?.name
NameOf(v) ==
    IF v.t \in {"undefined", "null"} THEN Undef
    ELSE IF "name" \in DOMAIN Props(v) THEN Props(v)["name"] ELSE Undef

\* { ...a, ...b } : the entries of b win.
Spread(a, b) ==
    [k \in (DOMAIN a) \cup (DOMAIN b) |-> IF k \in DOMAIN b THEN b[k] ELSE a[k]]

commonProperties == {"name", "message", "stack", "code"}

\* mutant: the fallback message is the value itself, not String(value)
miniSerializeErrorRawMessage(value) ==
    IF value.t \in {"object", "RejectWithValue", "FulfillWithMeta"}
    THEN Obj([p \in {q \in commonProperties \cap DOMAIN Props(value) :
                        Props(value)[q].t = "string"} |-> Props(value)[p]])
    ELSE Obj([message |-> value])

\* mutant: `typeof value[property] === 'string'` is not tested
miniSerializeErrorAnyType(value) ==
    IF value.t \in {"object", "RejectWithValue", "FulfillWithMeta"}
    THEN Obj([p \in commonProperties \cap DOMAIN Props(value) |-> Props(value)[p]])
    ELSE Obj([message |-> Str(StringOf(value))])

miniSerializeError(value) ==
    IF value.t \in {"object", "RejectWithValue", "FulfillWithMeta"}
    THEN Obj([p \in {q \in commonProperties \cap DOMAIN Props(value) :
                        Props(value)[q].t = "string"} |-> Props(value)[p]])
    ELSE Obj([message |-> Str(StringOf(value))])

\* A caller-supplied options.serializeError: keeps the message only.
customSerializeError(value) ==
    Obj([message |-> Str("custom")])

\* A promise returned by `condition`, settled later by its owner.
Thenable == [t |-> "thenable"]

isThenable(value) == value.t = "thenable"

\* --------------------------------------------------- the action creators
typePrefix == "fetchUser"

\* typePrefix + '/pending' etc.
ActionType == [pending |-> "fetchUser/pending",
               fulfilled |-> "fetchUser/fulfilled",
               rejected |-> "fetchUser/rejected"]

\* createAction(type, prepareAction)(...args): the prepared fields under `type`.
createAction(type, prepared) == [type |-> type] @@ prepared

\* actionCreator.match(action)
match(type, action) == action.type = type

\* ((meta as any) || {})
MetaOrEmpty(meta) == IF Falsy(meta) THEN EmptyObject ELSE Props(meta)

\* mutant: the prepare callback of pending copied, `payload: undefined` kept
fulfilledPayloadDropped(payload, requestId, arg, meta) ==
    createAction(ActionType.fulfilled,
        [payload |-> Undef,
         meta |-> Spread(MetaOrEmpty(meta),
                         [arg |-> arg, requestId |-> requestId,
                          requestStatus |-> "fulfilled"])])

fulfilled(payload, requestId, arg, meta) ==
    createAction(ActionType.fulfilled,
        [payload |-> payload,
         meta |-> Spread(MetaOrEmpty(meta),
                         [arg |-> arg, requestId |-> requestId,
                          requestStatus |-> "fulfilled"])])

\* mutant: the caller's metadata is spread last
pendingMetaLast(requestId, arg, meta) ==
    createAction(ActionType.pending,
        [payload |-> Undef,
         meta |-> Spread([arg |-> arg, requestId |-> requestId,
                          requestStatus |-> "pending"],
                         MetaOrEmpty(meta))])

pending(requestId, arg, meta) ==
    createAction(ActionType.pending,
        [payload |-> Undef,
         meta |-> Spread(MetaOrEmpty(meta),
                         [arg |-> arg, requestId |-> requestId,
                          requestStatus |-> "pending"])])

\* (options && options.serializeError) || miniSerializeError
SerializeError(value) ==
    IF task.serializeError = "custom" THEN customSerializeError(value)
    ELSE miniSerializeError(value)

\* mutant: the caller's metadata is spread after the engine's entries
rejectedMetaLast(error, requestId, arg, payload, meta) ==
    createAction(ActionType.rejected,
        [payload |-> payload,
         error |-> SerializeError(IF Falsy(error) THEN Str("Rejected") ELSE error),
         meta |-> Spread([arg |-> arg, requestId |-> requestId,
                          rejectedWithValue |-> ~Falsy(payload),
                          requestStatus |-> "rejected",
                          aborted |-> (NameOf(error) = Str("AbortError")),
                          condition |-> (NameOf(error) = Str("ConditionError"))],
                         MetaOrEmpty(meta))])

\* mutant: the two names are exchanged
rejectedNamesExchanged(error, requestId, arg, payload, meta) ==
    createAction(ActionType.rejected,
        [payload |-> payload,
         error |-> SerializeError(IF Falsy(error) THEN Str("Rejected") ELSE error),
         meta |-> Spread(MetaOrEmpty(meta),
                         [arg |-> arg, requestId |-> requestId,
                          rejectedWithValue |-> ~Falsy(payload),
                          requestStatus |-> "rejected",
                          aborted |-> (NameOf(error) = Str("ConditionError")),
                          condition |-> (NameOf(error) = Str("AbortError"))])])

\* mutant: the flags are computed whenever the error has a name
rejectedAnyName(error, requestId, arg, payload, meta) ==
    createAction(ActionType.rejected,
        [payload |-> payload,
         error |-> SerializeError(IF Falsy(error) THEN Str("Rejected") ELSE error),
         meta |-> Spread(MetaOrEmpty(meta),
                         [arg |-> arg, requestId |-> requestId,
                          rejectedWithValue |-> ~Falsy(payload),
                          requestStatus |-> "rejected",
                          aborted |-> (NameOf(error) # Undef),
                          condition |-> (NameOf(error) = Str("ConditionError"))])])

rejected(error, requestId, arg, payload, meta) ==
    createAction(ActionType.rejected,
        [payload |-> payload,
         error |-> SerializeError(IF Falsy(error) THEN Str("Rejected") ELSE error),
         meta |-> Spread(MetaOrEmpty(meta),
                         [arg |-> arg, requestId |-> requestId,
                          rejectedWithValue |-> ~Falsy(payload),
                          requestStatus |-> "rejected",
                          aborted |-> (NameOf(error) = Str("AbortError")),
                          condition |-> (NameOf(error) = Str("ConditionError"))])])

unwrapResult(action) ==
    IF "meta" \in DOMAIN action /\ "rejectedWithValue" \in DOMAIN action.meta
       /\ action.meta.rejectedWithValue
    THEN [threw |-> TRUE, v |-> action.payload]
    ELSE IF "error" \in DOMAIN action
         THEN [threw |-> TRUE, v |-> action.error]
         ELSE [threw |-> FALSE, v |-> action.payload]

\* ------------------------------------------------ the model's input values
ThunkArg == Num(7)
OtherArg == Num(42)                     \* the input of a second, concurrent call

NanoId == <<"nano1", "nano2">>          \* nanoid(): a fresh id per call
GeneratedId == "gen7"                   \* options.idGenerator(arg)

\* caller metadata: an entry of its own, and entries under keys the engine
\* writes itself
CallerMeta ==
    Obj([extra |-> Num(1), arg |-> Num(0), requestId |-> "forged",
         requestStatus |-> "forged", aborted |-> TRUE, condition |-> TRUE,
         rejectedWithValue |-> FALSE])
Metas == {Undef, CallerMeta}

PlainError == Obj([name |-> Str("Error"), message |-> Str("boom"), code |-> Num(42)])
DispatchError == Obj([name |-> Str("TypeError"), message |-> Str("reducer threw")])
SerializerError == Obj([name |-> Str("TypeError"), message |-> Str("serializer threw")])
GateError == Obj([name |-> Str("Error"), message |-> Str("gate threw")])
MetaError == Obj([name |-> Str("Error"), message |-> Str("getPendingMeta threw")])

\* what `condition` can throw or its promise reject with
GateErrors == {GateError, Obj([name |-> Str("ConditionError"), message |-> Str("skip")])}

\* what the payload creator can return or resolve to
PlainValues == {Undef, Obj([id |-> Num(7)])}
FailureWrappers == {RejectWithValue(Num(0), Undef),
                    RejectWithValue(Str("bad"), CallerMeta)}
SuccessWrappers == {FulfillWithMeta(Num(7), CallerMeta)}
Returned == PlainValues \cup FailureWrappers \cup SuccessWrappers

\* what the payload creator can throw or reject with
Thrown == {PlainError, Obj([name |-> Str("AbortError")]),
           Obj([name |-> Str("ConditionError")]), Str("oops"), Undef}

\* abort(reason?: string)
Reasons == {Undef, Str(""), Str("timeout")}

\* the results of options.condition (0: neither true nor false)
GateResults == {Bool(TRUE), Bool(FALSE), Num(0)}

OpAction == [type |-> "other/event"]

\* ------------------------------------------------------------- promises
NoPromise == [st |-> "none", v |-> Undef]
Pending == [st |-> "pending", v |-> Undef]
Fulfilled(v) == [st |-> "fulfilled", v |-> v]
Rejected(v) == [st |-> "rejected", v |-> v]
Settled(p) == p.st \in {"fulfilled", "rejected"}

\* The closure of one thunk call before it runs.
NewInvocation ==
    [def |-> 1,         \* the createAsyncThunk call whose actionCreator built it
     pc |-> "new", arg |-> Undef, requestId |-> "",
     started |-> FALSE, abortReason |-> Undef, signalAborted |-> FALSE,
     abortedPromise |-> NoPromise, condP |-> NoPromise,
     opP |-> NoPromise, opD |-> NoPromise, race |-> NoPromise,
     finalAction |-> Undef, promise |-> NoPromise, unwrapP |-> NoPromise,
     \* history: what the collaborators did
     gate |-> Undef, opCalls |-> 0, opSawAborted |-> FALSE, selfAbort |-> FALSE,
     threw |-> {}, thrown |-> Undef, caught |-> Undef,
     aborts |-> 0, abortedUnarmed |-> FALSE, abortedArmed |-> FALSE,
     abortedLate |-> FALSE,
     api |-> [requestId |-> "", signal |-> 0, abort |-> 0],
     firedBy |-> Undef, firedEarly |-> FALSE, tie |-> "none", lateSettle |-> FALSE]

World == [inv |-> inv, log |-> log, queue |-> queue,
          displayedWarning |-> displayedWarning, console |-> console]

Set(w, i, f, v) == [w EXCEPT !.inv[i][f] = v]

Enqueue(w, i, job) == [w EXCEPT !.queue = Append(@, [i |-> i, job |-> job])]

\* store.dispatch(action): the call is logged; `threw` is what the store did.
dispatch(w, i, who, action, threw) ==
    [w EXCEPT !.log = Append(@, [by |-> i, who |-> who, action |-> action,
                                 threw |-> threw])]

\* history: collaborator `who` threw in invocation i
Mark(w, i, who) == Set(w, i, "threw", w.inv[i].threw \cup {who})

\* ----------------------------------------- the thunk function, run by run
\* The async function settles `promise`; unwrap()'s reaction is then queued.
SettlePromise(w, i, p) ==
    LET w1 == Set(Set(w, i, "promise", p), i, "pc",
                  IF p.st = "fulfilled" THEN "returned" ELSE "failed")
    IN IF w.inv[i].unwrapP.st = "pending" THEN Enqueue(w1, i, "unwrap") ELSE w1

\* mutant: options.dispatchConditionRejection is not read
skipDispatchIgnoresOption(finalAction) ==
    /\ task.hasOptions
    /\ match(ActionType.rejected, finalAction)
    /\ finalAction.meta.condition

skipDispatch(finalAction) ==
    /\ task.hasOptions
    /\ ~task.dispatchConditionRejection
    /\ match(ActionType.rejected, finalAction)
    /\ finalAction.meta.condition

\* mutant: the final event is returned without being dispatched
FinishWithoutDispatch(w, i, finalAction) ==
    {SettlePromise(Set(w, i, "finalAction", finalAction), i, Fulfilled(finalAction))}

\* Lines 730-742: after the try/catch. The store may throw from dispatch.
Finish(w, i, finalAction) ==
    LET w1 == Set(w, i, "finalAction", finalAction)
    IN IF skipDispatch(finalAction)
       THEN {SettlePromise(w1, i, Fulfilled(finalAction))}
       ELSE {SettlePromise(dispatch(w1, i, "engine", finalAction, FALSE), i,
                           Fulfilled(finalAction)),
             SettlePromise(Mark(dispatch(w1, i, "engine", finalAction, TRUE), i,
                                "dispatchFinal"), i,
                           Rejected(DispatchError))}

\* Lines 719-722: the failed event of a caught value.
Classify(err, requestId, arg) ==
    IF err.t = "RejectWithValue"
    THEN rejected(Null, requestId, arg, err.payload, err.meta)
    ELSE rejected(err, requestId, arg, Undef, Undef)

\* mutant: the catch block returns the failed event itself
CatchReturnsEarly(w, i, err) ==
    LET w1 == Set(w, i, "caught", err)
    IN FinishWithoutDispatch(w1, i, Classify(err, w.inv[i].requestId, w.inv[i].arg))

\* Lines 718-742: the catch block and what follows it. A throwing
\* options.serializeError leaves the async function from inside the catch.
Catch(w, i, err) ==
    LET w1 == Set(w, i, "caught", err)
    IN IF task.serializeError = "throws"
       THEN {SettlePromise(Mark(w1, i, "serializeError"), i, Rejected(SerializerError))}
       ELSE Finish(w1, i, Classify(err, w.inv[i].requestId, w.inv[i].arg))

\* mutant: the call is made outside the try block of the async function
ThrowRejects(w, i, who, err) ==
    {SettlePromise(Set(Mark(w, i, who), i, "thrown", err), i, Rejected(err))}

\* mutant: the call is made before the async function, in the thunk itself
ThrowEscapes(w, i, who, err) ==
    {Set(Set(Mark(w, i, who), i, "thrown", err), i, "pc", "threw")}

\* A collaborator called inside the try block throws `err`.
Throw(w, i, who, err) == Catch(Set(Mark(w, i, who), i, "thrown", err), i, err)

\* mutant: the reason is not used for the message
AbortRejectionNoReason(abortReason) ==
    Obj([name |-> Str("AbortError"), message |-> Str("Aborted")])

\* The 'abort' listener of line 621: reject({name: 'AbortError', message}).
AbortRejection(abortReason) ==
    Obj([name |-> Str("AbortError"),
         message |-> IF Falsy(abortReason) THEN Str("Aborted") ELSE abortReason])

\* abort() of the fallback class, lines 587-597.
FallbackAbort(w, i) ==
    IF ~production /\ ~w.displayedWarning[w.inv[i].def]
    THEN [w EXCEPT !.displayedWarning[w.inv[i].def] = TRUE, !.console = @ + 1]
    ELSE w

\* mutant: every abort() runs the 'abort' listener again
ControllerAbortRefires(w, i) ==
    IF native
    THEN LET w1 == Set(Set(w, i, "signalAborted", TRUE), i, "abortedPromise",
                       Rejected(AbortRejection(w.inv[i].abortReason)))
             w2 == Set(Set(w1, i, "firedBy", w.inv[i].abortReason), i,
                       "firedEarly",
                       /\ w.inv[i].pc \notin {"returned", "failed"}
                       /\ w.inv[i].opD.st \in {"none", "pending"})
         IN IF w.inv[i].race.st # "none" THEN Enqueue(w2, i, "raceAbort") ELSE w2
    ELSE FallbackAbort(w, i)

\* mutant: the fallback class is never chosen
ControllerAbortIgnoresPlatform(w, i) ==
    IF w.inv[i].signalAborted
    THEN w
    ELSE LET w1 == Set(Set(w, i, "signalAborted", TRUE), i, "abortedPromise",
                       Rejected(AbortRejection(w.inv[i].abortReason)))
             w2 == Set(Set(w1, i, "firedBy", w.inv[i].abortReason), i,
                       "firedEarly",
                       /\ w.inv[i].pc \notin {"returned", "failed"}
                       /\ w.inv[i].opD.st \in {"none", "pending"})
         IN IF w.inv[i].race.st # "none" THEN Enqueue(w2, i, "raceAbort") ELSE w2

\* mutant: the signal fires but the 'abort' listener is not registered
ControllerAbortListenerLost(w, i) ==
    IF native
    THEN IF w.inv[i].signalAborted
         THEN w
         ELSE Set(Set(Set(w, i, "signalAborted", TRUE), i, "firedBy",
                      w.inv[i].abortReason), i, "firedEarly",
                  /\ w.inv[i].pc \notin {"returned", "failed"}
                  /\ w.inv[i].opD.st \in {"none", "pending"})
    ELSE FallbackAbort(w, i)

\* abortController.abort(): the native controller fires its signal once; the
\* fallback class of lines 575-598 only logs.
ControllerAbort(w, i) ==
    IF native
    THEN IF w.inv[i].signalAborted
         THEN w
         ELSE LET w1 == Set(Set(w, i, "signalAborted", TRUE), i, "abortedPromise",
                            Rejected(AbortRejection(w.inv[i].abortReason)))
                  w2 == Set(Set(w1, i, "firedBy", w.inv[i].abortReason), i,
                            "firedEarly",
                            /\ w.inv[i].pc \notin {"returned", "failed"}
                            /\ w.inv[i].opD.st \in {"none", "pending"})
              IN IF w.inv[i].race.st # "none" THEN Enqueue(w2, i, "raceAbort") ELSE w2
    ELSE FallbackAbort(w, i)

\* mutant: abort() dispatches the aborted event itself
abortDispatches(w, i, reason) ==
    IF w.inv[i].started
    THEN dispatch(ControllerAbort(Set(w, i, "abortReason", reason), i), i, "engine",
                  rejected(AbortRejection(reason), w.inv[i].requestId, w.inv[i].arg,
                           Undef, Undef), FALSE)
    ELSE w

\* mutant: abort() does not test `started`
abortUnguarded(w, i, reason) ==
    ControllerAbort(Set(w, i, "abortReason", reason), i)

\* mutant: one controller, created by createAsyncThunk, serves every call
abortShared(w, i, reason) ==
    LET Fire(v, j) == IF v.inv[j].started
                      THEN ControllerAbort(Set(v, j, "abortReason", reason), j)
                      ELSE v
        others == (DOMAIN w.inv) \ {i}
        w1 == IF w.inv[i].started THEN Fire(w, i) ELSE w
    IN IF w.inv[i].started /\ others # {}
       THEN Fire(w1, CHOOSE j \in others : TRUE)
       ELSE w1

\* function abort(reason), lines 630-636.
abort(w, i, reason) ==
    IF w.inv[i].started
    THEN ControllerAbort(Set(w, i, "abortReason", reason), i)
    ELSE w

\* Promise.race([abortedPromise, ...]) followed by `await`, line 679.
Race(w, i) ==
    LET w1 == Set(Set(w, i, "race", Pending), i, "pc", "awaitRace")
    IN IF w.inv[i].abortedPromise.st = "rejected"
       THEN Enqueue(w1, i, "raceAbort")
       ELSE w1

\* What one call of the payload creator does before it returns: it dispatches
\* an event of its own, may call thunkAPI.abort(), and returns or throws.
OpBehaviours ==
    [aborts : BOOLEAN,
     ret : {[k |-> "promise"]}
           \cup {[k |-> "return", v |-> v] : v \in Returned}
           \cup {[k |-> "throw", v |-> v] : v \in Thrown}]

\* mutant: the context gets a request id of its own
thunkAPIFreshId(w, i) ==
    [requestId |-> "nano3", signal |-> i, abort |-> i]

\* Lines 686-700: the second argument of the payload creator. `signal` and
\* `abort` are named by the thunk call whose controller and closure they
\* belong to.
thunkAPI(w, i) ==
    [requestId |-> w.inv[i].requestId, signal |-> i, abort |-> i]

\* Lines 683-714: payloadCreator(arg, thunkAPI), Promise.resolve(..).then(..),
\* and the race.
InvokeOp(w, i) ==
    UNION {
        LET api == thunkAPI(w, i)
            w1 == Set(Set(Set(w, i, "opCalls", w.inv[i].opCalls + 1), i,
                          "opSawAborted", w.inv[api.signal].signalAborted), i,
                      "api", api)
            w2 == dispatch(w1, i, "op", OpAction, FALSE)
            w3 == IF b.aborts
                  THEN abort(Set(w2, i, "selfAbort", TRUE), api.abort, Str("self"))
                  ELSE w2
        IN CASE b.ret.k = "throw" -> Throw(w3, i, "payloadCreator", b.ret.v)
             [] b.ret.k = "return" ->
                  {Race(Enqueue(Set(Set(w3, i, "opP", Fulfilled(b.ret.v)), i,
                                    "opD", Pending), i, "thenP"), i)}
             [] OTHER ->
                  {Race(Set(Set(w3, i, "opP", Pending), i, "opD", Pending), i)}
        : b \in OpBehaviours }

\* Lines 662-676: arm, build and dispatch pending.
AfterGate(w, i) ==
    LET w1 == Set(w, i, "started", TRUE)
        id == w.inv[i].requestId
        arg == w.inv[i].arg
        Go(meta) ==
            LET p == pending(id, arg, meta)
            IN InvokeOp(dispatch(w1, i, "engine", p, FALSE), i)
               \cup Throw(dispatch(w1, i, "engine", p, TRUE), i, "dispatchPending",
                          DispatchError)
    IN IF task.getPendingMeta
       THEN Throw(w1, i, "getPendingMeta", MetaError)
            \cup UNION {Go(m) : m \in Metas \ {Undef}}
       ELSE Go(Undef)

\* mutant: `conditionResult === false` is not tested
GateResultNeverRejects(w, i, conditionResult) ==
    AfterGate(Set(w, i, "gate", conditionResult), i)

\* Lines 653-659, with the value of conditionResult.
GateResult(w, i, conditionResult) ==
    LET w1 == Set(w, i, "gate", conditionResult)
    IN IF conditionResult = Bool(FALSE)
       THEN Catch(w1, i, Obj([name |-> Str("ConditionError"),
                              message |-> Str("Aborted due to condition callback returning false.")]))
       ELSE AfterGate(w1, i)

\* Lines 645-651: options?.condition?.(arg, ...) and the await of a thenable.
Gate(w, i) ==
    IF task.condition
    THEN UNION {Throw(w, i, "condition", e) : e \in GateErrors}
         \cup {Set(Set(Set(w, i, "condP", Pending), i, "pc", "awaitCond"), i,
                   "gate", Thenable)}
         \cup UNION {GateResult(w, i, c) : c \in GateResults}
    ELSE GateResult(w, i, Undef)

\* mutant: `requestId` is a variable of createAsyncThunk, not of the thunk call
ThunkSharedRequestId(w, i) ==
    LET others == (DOMAIN w.inv) \ {i}
        w1 == Set(w, i, "requestId", NanoId[i])
        w2 == IF others = {} THEN w1
              ELSE Set(w1, CHOOSE j \in others : TRUE, "requestId", NanoId[i])
    IN Gate(Set(Set(w2, i, "abortedPromise", Pending), i, "promise", Pending), i)

\* Lines 606-640: the thunk is called with (dispatch, getState, extra).
Thunk(w, i) ==
    LET Run(id) ==
            Gate(Set(Set(Set(w, i, "requestId", id), i, "abortedPromise", Pending),
                     i, "promise", Pending), i)
    IN IF task.idGenerator
       THEN {Set(Mark(w, i, "idGenerator"), i, "pc", "threw")} \cup Run(GeneratedId)
       ELSE Run(NanoId[i])

\* mutant: the wrapper's meta is not passed on
OnResultDropsMeta(result, requestId, arg) ==
    IF result.t = "RejectWithValue" THEN Rejected(result)
    ELSE IF result.t = "FulfillWithMeta"
         THEN Fulfilled(fulfilled(result.payload, requestId, arg, Undef))
         ELSE Fulfilled(fulfilled(result, requestId, arg, Undef))

\* The callback of .then(), lines 702-713, as the settlement of the derived promise.
OnResult(result, requestId, arg) ==
    IF result.t = "RejectWithValue" THEN Rejected(result)
    ELSE IF result.t = "FulfillWithMeta"
         THEN Fulfilled(fulfilled(result.payload, requestId, arg, result.meta))
         ELSE Fulfilled(fulfilled(result, requestId, arg, Undef))

\* The reaction job of Promise.resolve(payloadCreator(..)).then(..): it settles
\* the derived promise, to which the race has subscribed.
ThenJob(w, i) ==
    LET P == w.inv[i].opP
        D == IF P.st = "rejected" THEN Rejected(P.v)
             ELSE OnResult(P.v, w.inv[i].requestId, w.inv[i].arg)
    IN Enqueue(Set(w, i, "opD", D), i, "raceD")

\* mutant: a later settlement overwrites the race and resumes the function again
RaceJobAlways(w, i, p) == Enqueue(Set(w, i, "race", p), i, "resumeRace")

\* A reaction job of Promise.race: the first settlement decides the race and
\* queues the continuation of the `await`.
RaceJob(w, i, p) ==
    IF w.inv[i].race.st = "pending"
    THEN Enqueue(Set(w, i, "race", p), i, "resumeRace")
    ELSE w

\* The continuation of `await Promise.race(..)`, lines 679-742.
ResumeRaceJob(w, i) ==
    IF w.inv[i].race.st = "fulfilled"
    THEN Finish(w, i, w.inv[i].race.v)
    ELSE Catch(w, i, w.inv[i].race.v)

\* mutant: the awaited result is not compared with false
ResumeCondJobAnyResult(w, i) ==
    IF w.inv[i].condP.st = "fulfilled"
    THEN AfterGate(w, i)
    ELSE Catch(Mark(w, i, "conditionPromise"), i, w.inv[i].condP.v)

\* The continuation of `await conditionResult`, lines 650-742.
ResumeCondJob(w, i) ==
    IF w.inv[i].condP.st = "fulfilled"
    THEN GateResult(w, i, w.inv[i].condP.v)
    ELSE Catch(Mark(w, i, "conditionPromise"), i, w.inv[i].condP.v)

\* The reaction job of promise.then(unwrapResult), line 753.
UnwrapJob(w, i) ==
    LET p == w.inv[i].promise
        r == unwrapResult(p.v)
    IN Set(w, i, "unwrapP",
           IF p.st = "rejected" THEN Rejected(p.v)
           ELSE IF r.threw THEN Rejected(r.v) ELSE Fulfilled(r.v))

\* handle.unwrap(), lines 752-754.
unwrap(w, i) ==
    LET w1 == Set(w, i, "unwrapP", Pending)
    IN IF Settled(w.inv[i].promise) THEN Enqueue(w1, i, "unwrap") ELSE w1

\* mutant: the race is run on the payload creator's promise itself
SettleOpNoThen(w, i, outcome) ==
    Enqueue(Set(Set(Set(w, i, "opP", outcome), i, "lateSettle",
                    w.inv[i].finalAction # Undef), i, "opD",
                IF outcome.st = "rejected" THEN outcome
                ELSE OnResult(outcome.v, w.inv[i].requestId, w.inv[i].arg)),
            i, "raceD")

\* The payload creator's promise settles.
SettleOp(w, i, outcome) ==
    Enqueue(Set(Set(w, i, "opP", outcome), i, "lateSettle",
                w.inv[i].finalAction # Undef), i, "thenP")

Outcomes == {Fulfilled(v) : v \in Returned} \cup {Rejected(e) : e \in Thrown}

\* ------------------------------------------- createReducer and createSlice
\* A function of the caller: a case reducer or a prepare callback. `how` is
\* what the body of a case reducer does: "return" returns a new state,
\* "mutate" changes the draft and returns undefined, "nothing" returns
\* undefined and changes nothing.
Fn(id, how) == [t |-> "function", id |-> id, how |-> how]

\* A lazy initializer `() => value`.
Initializer(value) == [t |-> "function", id |-> "initialState", returns |-> value]

\* A builder callback `(builder) => { builder.addCase(...)... }`, by the calls
\* it makes on the builder.
Builder(builderCalls) ==
    [t |-> "function", id |-> "builderCallback", builderCalls |-> builderCalls]

addCase(type, reducer) == [op |-> "addCase", type |-> type, reducer |-> reducer]

addMatcher(matcher, reducer) ==
    [op |-> "addMatcher", matcher |-> matcher, reducer |-> reducer]

addDefaultCase(reducer) == [op |-> "addDefaultCase", reducer |-> reducer]

\* A matcher `(action) => boolean`, by the action types it accepts.
Matcher(types) == [t |-> "function", id |-> "matcher", accepts |-> types]

\* part_000 lines 76-78: typeof x === 'function'
isStateFunction(x) == x.t = "function"

\* immer's isDraftable: plain objects (and arrays), not primitives, not null
isDraftable(value) == value.t = "object"

\* utils.ts lines 74-76: the value itself, frozen when draftable
freezeDraftable(val) == val

\* What a plain object inherits from Object.prototype under the names the
\* model's action types reach.
ObjectPrototype ==
    [toString |-> [t |-> "function", id |-> "Object.prototype.toString",
                   how |-> "native"]]

\* object[key] on a plain object: an own property, else an inherited one,
\* else undefined.
Get(object, key) ==
    IF key \in DOMAIN object THEN object[key]
    ELSE IF key \in DOMAIN ObjectPrototype THEN ObjectPrototype[key]
         ELSE Undef

\* The bodies of the model's case reducers count: the state holds a number,
\* directly or as the field n of an object, and a body that returns or
\* mutates makes it one more.
Bump(s) ==
    CASE s.t = "number" -> Num(s.n + 1)
      [] s.t = "object" -> Obj([n |-> Num(s.f.n.n + 1)])
      [] OTHER -> Num(1)

Count(s) ==
    CASE s.t = "number" -> s.n
      [] s.t = "object" -> s.f.n.n
      [] OTHER -> 0

\* caseReducer(state, action): the value the call returns. Called as a plain
\* function, Object.prototype.toString has no `this` and returns the tag of
\* undefined.
ReturnOf(cr, s) ==
    CASE cr.how = "return" -> Bump(s)
      [] cr.how = "native" -> Str("[object Undefined]")
      [] OTHER -> Undef

\* createNextState(previousState, recipe), immer's produce: the value the
\* recipe returns if it returns one, else the draft as the recipe left it.
createNextState(previousState, cr) ==
    IF ReturnOf(cr, previousState) # Undef THEN ReturnOf(cr, previousState)
    ELSE IF cr.how = "mutate" THEN Bump(previousState) ELSE previousState

NonDraftableError ==
    Obj([name |-> Str("Error"),
         message |-> Str("A case reducer on a non-draftable value must not return undefined")])

\* The callback of caseReducers.reduce, part_000 lines 280-331. The states
\* the store passes are never drafts (line 284 is false).
ReduceStep(acc, cr) ==
    IF acc.threw \/ cr = Undef THEN acc
    ELSE LET previousState == acc.v
             ran == Append(acc.calls, [id |-> cr.id, state |-> previousState])
             result == ReturnOf(cr, previousState)
         IN IF ~isDraftable(previousState)
            THEN IF result = Undef
                 THEN IF previousState = Null
                      THEN [acc EXCEPT !.calls = ran]
                      ELSE [acc EXCEPT !.threw = TRUE, !.v = NonDraftableError,
                                       !.calls = ran]
                 ELSE [acc EXCEPT !.v = result, !.calls = ran]
            ELSE [acc EXCEPT !.v = createNextState(previousState, cr),
                             !.calls = ran]

RECURSIVE Reduce(_, _)
Reduce(acc, caseReducers) ==
    IF caseReducers = <<>> THEN acc
    ELSE Reduce(ReduceStep(acc, Head(caseReducers)), Tail(caseReducers))

\* finalActionMatchers.filter(({ matcher }) => matcher(action))
\*                    .map(({ reducer }) => reducer), lines 257-259
RECURSIVE MatchingReducers(_, _)
MatchingReducers(matchers, action) ==
    IF matchers = <<>> THEN <<>>
    ELSE (IF action.type \in Head(matchers).matcher.accepts
          THEN <<Head(matchers).reducer>> ELSE <<>>)
         \o MatchingReducers(Tail(matchers), action)

\* Lines 253-265: the case reducer of the type, the reducers of the matching
\* matchers, and the default case reducer if none of these is there.
CaseReducers(r, action) ==
    LET caseReducers ==
            <<Get(r.actionsMap, action.type)>>
                \o MatchingReducers(r.finalActionMatchers, action)
    IN IF SelectSeq(caseReducers, LAMBDA cr : cr # Undef) = <<>>
       THEN <<r.finalDefaultCaseReducer>>
       ELSE caseReducers

\* mutant: the initial state is computed once, when the reducer is created
getInitialStateCached(r, rd) ==
    [v |-> IF isStateFunction(r.initialState) THEN r.initialState.returns
           ELSE r.initialState,
     reads |-> rd]

\* Lines 243-249: getInitialState(), with the number of initializer calls.
getInitialState(r, rd) ==
    IF isStateFunction(r.initialState)
    THEN [v |-> freezeDraftable(r.initialState.returns), reads |-> rd + 1]
    ELSE [v |-> r.initialState, reads |-> rd]

\* Lines 252-332: reducer(state = getInitialState(), action). The result is
\* what the call returned or threw, the case reducers it ran and the number
\* of initializer calls after it.
reducer(r, st, action, rd) ==
    LET init == IF st = Undef THEN getInitialState(r, rd)
                ELSE [v |-> st, reads |-> rd]
        res == Reduce([threw |-> FALSE, v |-> init.v, calls |-> <<>>],
                      CaseReducers(r, action))
    IN [threw |-> res.threw, v |-> res.v, calls |-> res.calls, reads |-> init.reads]

DuplicateCaseError ==
    Obj([name |-> Str("Error"),
         message |-> Str("addCase cannot be called with two reducers for the same action type")])

\* mapBuilders.ts executeReducerBuilderCallback: runs the callback on a
\* builder and returns what it registered; addCase throws on a type that is
\* registered already.
RECURSIVE executeReducerBuilderCallback(_, _)
executeReducerBuilderCallback(builderCalls, acc) ==
    IF builderCalls = <<>> \/ acc.threw THEN acc
    ELSE LET c == Head(builderCalls)
             next ==
                CASE c.op = "addCase" ->
                        IF c.type \in DOMAIN acc.actionsMap
                        THEN [acc EXCEPT !.threw = TRUE, !.v = DuplicateCaseError]
                        ELSE [acc EXCEPT !.actionsMap = (c.type :> c.reducer) @@ @]
                  [] c.op = "addMatcher" ->
                        [acc EXCEPT !.actionMatchers =
                            Append(@, [matcher |-> c.matcher, reducer |-> c.reducer])]
                  [] OTHER -> [acc EXCEPT !.defaultCaseReducer = c.reducer]
         IN executeReducerBuilderCallback(Tail(builderCalls), next)

NothingRegistered ==
    [threw |-> FALSE, v |-> Undef, actionsMap |-> EmptyObject,
     actionMatchers |-> <<>>, defaultCaseReducer |-> Undef]

\* createReducer, lines 216-339: either the reducer or what building it threw.
createReducer(initialState, mapOrBuilderCallback, actionMatchers, defaultCaseReducer) ==
    LET parts ==
            IF mapOrBuilderCallback.t = "function"
            THEN executeReducerBuilderCallback(mapOrBuilderCallback.builderCalls,
                                               NothingRegistered)
            ELSE [threw |-> FALSE, v |-> Undef,
                  actionsMap |-> mapOrBuilderCallback.f,
                  actionMatchers |-> actionMatchers,
                  defaultCaseReducer |-> defaultCaseReducer]
    IN IF parts.threw THEN [threw |-> TRUE, v |-> parts.v]
       ELSE [threw |-> FALSE,
             v |-> [t |-> "function", id |-> "reducer",
                    initialState |-> IF isStateFunction(initialState)
                                     THEN initialState
                                     ELSE freezeDraftable(initialState),
                    actionsMap |-> parts.actionsMap,
                    finalActionMatchers |-> parts.actionMatchers,
                    finalDefaultCaseReducer |-> parts.defaultCaseReducer]]

\* createSlice.ts lines 260-262
getType(slice, actionKey) == slice \o "/" \o actionKey

\* Lines 352-358: the case reducer of an entry of `reducers`.
caseReducerOf(maybeReducerWithPrepare) ==
    IF maybeReducerWithPrepare.t = "object"
         /\ "reducer" \in DOMAIN maybeReducerWithPrepare.f
    THEN maybeReducerWithPrepare.f.reducer
    ELSE maybeReducerWithPrepare

\* Lines 352-358: its prepare callback, if it has one.
prepareCallbackOf(maybeReducerWithPrepare) ==
    IF maybeReducerWithPrepare.t = "object"
         /\ "reducer" \in DOMAIN maybeReducerWithPrepare.f
    THEN maybeReducerWithPrepare.f.prepare
    ELSE Undef

\* Line 319: Object.keys(reducers)
reducerNames(opts) == DOMAIN opts.reducers

\* Line 360: { decrement => fn }
sliceCaseReducersByName(opts) ==
    [reducerName \in reducerNames(opts) |-> caseReducerOf(opts.reducers[reducerName])]

\* Line 361: { counter/decrement => fn }
sliceCaseReducersByType(opts) ==
    [type \in {getType(opts.name, reducerName) : reducerName \in reducerNames(opts)} |->
        caseReducerOf(opts.reducers[
            CHOOSE reducerName \in reducerNames(opts) :
                getType(opts.name, reducerName) = type])]

\* Lines 362-364: { decrement => createAction(type, prepareCallback) }
actionCreators(opts) ==
    [reducerName \in reducerNames(opts) |->
        [t |-> "function", id |-> "actionCreator",
         type |-> getType(opts.name, reducerName),
         prepare |-> prepareCallbackOf(opts.reducers[reducerName])]]

\* actionCreator(arg): without a prepare callback the argument is the
\* payload; the model's prepare callback adds a meta field.
CallActionCreator(ac, arg) ==
    createAction(ac.type,
                 IF ac.prepare = Undef THEN [payload |-> arg]
                 ELSE [payload |-> arg, meta |-> Str(ac.prepare.id)])

\* The keys of an object in some order, as `for (let key in object)` visits them.
RECURSIVE KeysOf(_)
KeysOf(keys) ==
    IF keys = {} THEN <<>>
    ELSE LET key == CHOOSE k \in keys : TRUE
         IN <<key>> \o KeysOf(keys \ {key})

\* mutant: the reducers of extraReducers are registered next to the slice's
finalBuilderCallsBoth(extraReducers, byType, actionMatchers, defaultCaseReducer) ==
    [i \in 1..Len(KeysOf(DOMAIN extraReducers)) |->
        addCase(KeysOf(DOMAIN extraReducers)[i],
                extraReducers[KeysOf(DOMAIN extraReducers)[i]])]
    \o [i \in 1..Len(KeysOf(DOMAIN byType)) |->
        addCase(KeysOf(DOMAIN byType)[i], byType[KeysOf(DOMAIN byType)[i]])]
    \o [i \in 1..Len(actionMatchers) |->
        addMatcher(actionMatchers[i].matcher, actionMatchers[i].reducer)]
    \o (IF defaultCaseReducer # Undef THEN <<addDefaultCase(defaultCaseReducer)>>
        ELSE <<>>)

\* Lines 394-410: the builder callback buildReducer hands to createReducer.
finalBuilderCalls(extraReducers, byType, actionMatchers, defaultCaseReducer) ==
    LET finalCaseReducers == Spread(extraReducers, byType)
        keys == KeysOf(DOMAIN finalCaseReducers)
    IN [i \in 1..Len(keys) |-> addCase(keys[i], finalCaseReducers[keys[i]])]
       \o [i \in 1..Len(actionMatchers) |->
              addMatcher(actionMatchers[i].matcher, actionMatchers[i].reducer)]
       \o (IF defaultCaseReducer # Undef
           THEN <<addDefaultCase(defaultCaseReducer)>> ELSE <<>>)

\* Lines 384-410 of buildReducer: the reducer, or what building it threw.
buildReducer(opts) ==
    LET extra ==
            IF opts.extraReducers.t = "function"
            THEN executeReducerBuilderCallback(opts.extraReducers.builderCalls,
                                               NothingRegistered)
            ELSE [NothingRegistered EXCEPT
                    !.actionsMap = IF opts.extraReducers = Undef THEN EmptyObject
                                   ELSE opts.extraReducers.f]
    IN IF extra.threw THEN [threw |-> TRUE, v |-> extra.v]
       ELSE createReducer(
                IF isStateFunction(opts.initialState) THEN opts.initialState
                ELSE freezeDraftable(opts.initialState),
                Builder(finalBuilderCalls(extra.actionsMap,
                                          sliceCaseReducersByType(opts),
                                          extra.actionMatchers,
                                          extra.defaultCaseReducer)),
                <<>>, Undef)

\* No reducer is under test.
NoReducer ==
    /\ options = Undef
    /\ _reducer = Undef
    /\ hasWarnedAboutObjectNotation = FALSE
    /\ state = Undef
    /\ calls = <<>>
    /\ reads = 0
    /\ builds = 0
    /\ out = Undef

\* ---------------------------------------------------------------- actions
\* The option sets: every combination of the options the failure path reads
\* (condition, dispatchConditionRejection, serializeError), and idGenerator and
\* getPendingMeta combined with condition.
NoOptions ==
    [hasOptions |-> FALSE, condition |-> FALSE, dispatchConditionRejection |-> FALSE,
     serializeError |-> "default", idGenerator |-> FALSE, getPendingMeta |-> FALSE]

Tasks ==
    {NoOptions}
    \cup [hasOptions : {TRUE}, condition : BOOLEAN,
          dispatchConditionRejection : BOOLEAN,
          serializeError : {"default", "custom", "throws"},
          idGenerator : {FALSE}, getPendingMeta : {FALSE}]
    \cup [hasOptions : {TRUE}, condition : BOOLEAN,
          dispatchConditionRejection : {FALSE}, serializeError : {"default"},
          idGenerator : BOOLEAN, getPendingMeta : BOOLEAN]

Invocations == {1}

\* NODE_ENV is read by the fallback class only.
Init ==
    /\ task \in Tasks
    /\ native \in BOOLEAN
    /\ production \in (IF native THEN {FALSE} ELSE BOOLEAN)
    /\ inv = [i \in Invocations |-> NewInvocation]
    /\ log = <<>>
    /\ queue = <<>>
    /\ displayedWarning = [d \in {1} |-> FALSE]
    /\ console = 0
    /\ NoReducer

\* Two concurrent calls of the thunks of one task, with different inputs.
ConcurrentTask ==
    [hasOptions |-> TRUE, condition |-> TRUE, dispatchConditionRejection |-> TRUE,
     serializeError |-> "default", idGenerator |-> FALSE, getPendingMeta |-> FALSE]

Init2 ==
    /\ task = ConcurrentTask
    /\ native \in BOOLEAN
    /\ production \in (IF native THEN {FALSE} ELSE BOOLEAN)
    /\ inv = [i \in {1, 2} |-> NewInvocation]
    /\ log = <<>>
    /\ queue = <<>>
    /\ displayedWarning = [d \in {1} |-> FALSE]
    /\ console = 0
    /\ NoReducer

\* With two concurrent invocations the collaborators are drawn from narrower
\* sets: the gate resolves to true or false, the operation settles with one
\* value or one error through its promise, abort() is called with a reason,
\* once per invocation at most, and nothing else throws.
InScope(w) ==
    \/ DOMAIN w.inv = Invocations
    \/ \A i \in DOMAIN w.inv :
          LET r == w.inv[i]
          IN /\ r.threw = {}
             /\ r.gate \in {Undef, Thenable, Bool(TRUE), Bool(FALSE)}
             /\ r.opP \in {NoPromise, Pending, Fulfilled(Obj([id |-> Num(7)])),
                           Rejected(PlainError)}
             /\ ~r.selfAbort
             /\ r.abortReason \in {Undef, Str("timeout")}
             /\ r.abortedArmed => r.abortReason = Str("timeout")
             /\ r.aborts <= 1

\* createAsyncThunk is called twice, with the same options, and a thunk of
\* each of the two tasks is invoked.
Init3 ==
    /\ task = ConcurrentTask
    /\ native \in BOOLEAN
    /\ production \in (IF native THEN {FALSE} ELSE BOOLEAN)
    /\ inv = <<NewInvocation, [NewInvocation EXCEPT !.def = 2]>>
    /\ log = <<>>
    /\ queue = <<>>
    /\ displayedWarning = [d \in {1, 2} |-> FALSE]
    /\ console = 0
    /\ NoReducer

\* The tasks of the progress properties: no options, and a gate.
LiveTasks ==
    {NoOptions,
     [hasOptions |-> TRUE, condition |-> TRUE, dispatchConditionRejection |-> FALSE,
      serializeError |-> "default", idGenerator |-> FALSE, getPendingMeta |-> FALSE]}

InitLive ==
    /\ task \in LiveTasks
    /\ native \in BOOLEAN
    /\ production = FALSE
    /\ inv = [i \in Invocations |-> NewInvocation]
    /\ log = <<>>
    /\ queue = <<>>
    /\ displayedWarning = [d \in {1} |-> FALSE]
    /\ console = 0
    /\ NoReducer

Commit(w) ==
    /\ InScope(w)
    /\ inv' = w.inv
    /\ log' = w.log
    /\ queue' = w.queue
    /\ displayedWarning' = w.displayedWarning
    /\ console' = w.console
    /\ UNCHANGED <<task, native, production>>
    /\ UNCHANGED rvars

HasHandle(i) == inv[i].pc \in {"awaitCond", "awaitRace", "returned", "failed"}

\* mutant: the request id is generated when the thunk is built
ActionCreatorEager(i) ==
    /\ inv[i].pc = "new"
    /\ Commit(Set(Set(Set(World, i, "arg", IF i = 1 THEN ThunkArg ELSE OtherArg), i,
                      "pc", "built"), i, "requestId", NanoId[i]))

\* actionCreator(arg), lines 601-606: only builds the thunk.
ActionCreator(i) ==
    /\ inv[i].pc = "new"
    /\ Commit(Set(Set(World, i, "arg", IF i = 1 THEN ThunkArg ELSE OtherArg), i,
                  "pc", "built"))

\* Caller code: `handle = dispatch(thunk); handle.unwrap()`. The thunk
\* middleware calls the thunk; no handle is returned when the call throws.
CallThunk(i) ==
    /\ inv[i].pc = "built"
    /\ \E w \in Thunk(World, i) :
          Commit(IF w.inv[i].pc = "threw" THEN w ELSE unwrap(w, i))

\* history: abort() is called from outside the payload creator's first run
Called(w, i) ==
    LET w0 == Set(w, i, "aborts", w.inv[i].aborts + 1)
        w1 == IF w.inv[i].finalAction # Undef \/ Settled(w.inv[i].promise)
              THEN Set(w0, i, "abortedLate", TRUE)
              ELSE w0
    IN IF w.inv[i].started
       THEN Set(w1, i, "abortedArmed", TRUE)
       ELSE Set(w1, i, "abortedUnarmed", TRUE)

\* Caller code (or the payload creator, through thunkAPI.abort) calls abort.
Abort(i) ==
    /\ HasHandle(i)
    /\ inv[i].aborts < MaxAborts
    /\ \E reason \in Reasons : Commit(abort(Called(World, i), i, reason))

\* The promise returned by `condition` settles.
CondSettle(i) ==
    /\ inv[i].condP.st = "pending"
    /\ \E o \in {Fulfilled(c) : c \in GateResults}
                    \cup {Rejected(e) : e \in GateErrors} :
          Commit(Enqueue(Set(World, i, "condP", o), i, "resumeCond"))

\* The promise returned by the payload creator settles.
OpSettle(i) ==
    /\ inv[i].opP.st = "pending"
    /\ \E o \in Outcomes : Commit(SettleOp(World, i, o))

\* One run of caller code does both: it settles the payload creator's promise
\* and calls abort(), in either order.
Tie(w, w2, i, order) ==
    IF w2.inv[i].signalAborted /\ ~w.inv[i].signalAborted
    THEN Set(w2, i, "tie", order)
    ELSE w2

SettleThenAbort(i) ==
    /\ inv[i].opP.st = "pending"
    /\ inv[i].aborts < MaxAborts
    /\ \E o \in Outcomes, reason \in Reasons :
          LET w == Called(World, i)
          IN Commit(Tie(w, abort(SettleOp(w, i, o), i, reason), i, "settleFirst"))

AbortThenSettle(i) ==
    /\ inv[i].opP.st = "pending"
    /\ inv[i].aborts < MaxAborts
    /\ \E o \in Outcomes, reason \in Reasons :
          LET w == Called(World, i)
          IN Commit(Tie(w, SettleOp(abort(w, i, reason), i, o), i, "abortFirst"))

\* The job at the head of the microtask queue runs.
Pop(w) == [w EXCEPT !.queue = Tail(@)]

HeadIs(job) == queue # <<>> /\ Head(queue).job = job

RunThen ==
    /\ HeadIs("thenP")
    /\ \E w \in {ThenJob(Pop(World), Head(queue).i)} : Commit(w)

RunRaceOp ==
    /\ HeadIs("raceD")
    /\ \E w \in {RaceJob(Pop(World), Head(queue).i, inv[Head(queue).i].opD)} :
          Commit(w)

RunRaceAbort ==
    /\ HeadIs("raceAbort")
    /\ \E w \in {RaceJob(Pop(World), Head(queue).i,
                         Rejected(inv[Head(queue).i].abortedPromise.v))} :
          Commit(w)

ResumeRace ==
    /\ HeadIs("resumeRace")
    /\ \E w \in ResumeRaceJob(Pop(World), Head(queue).i) : Commit(w)

ResumeCond ==
    /\ HeadIs("resumeCond")
    /\ \E w \in ResumeCondJob(Pop(World), Head(queue).i) : Commit(w)

RunUnwrap ==
    /\ HeadIs("unwrap")
    /\ \E w \in {UnwrapJob(Pop(World), Head(queue).i)} : Commit(w)

Next ==
    \/ \E i \in DOMAIN inv : ActionCreator(i)
    \/ \E i \in DOMAIN inv : CallThunk(i)
    \/ \E i \in DOMAIN inv : Abort(i)
    \/ \E i \in DOMAIN inv : CondSettle(i)
    \/ \E i \in DOMAIN inv : OpSettle(i)
    \/ \E i \in DOMAIN inv : SettleThenAbort(i)
    \/ \E i \in DOMAIN inv : AbortThenSettle(i)
    \/ RunThen
    \/ RunRaceOp
    \/ RunRaceAbort
    \/ ResumeRace
    \/ ResumeCond
    \/ RunUnwrap

Spec == Init /\ [][Next]_vars

Spec2 == Init2 /\ [][Next]_vars

Spec3 == Init3 /\ [][Next]_vars

\* The job at the head of the microtask queue, whichever it is.
RunJob ==
    RunThen \/ RunRaceOp \/ RunRaceAbort \/ ResumeRace \/ ResumeCond \/ RunUnwrap

\* A job can run exactly when the microtask queue is not empty.
RunJobEnabled == (ENABLED <<RunJob>>_vars) <=> (queue # <<>>)

\* The JavaScript engine runs every queued promise job; when callers call
\* abort() and when the promises of the collaborators settle is up to them.
\* This is weak fairness of RunJob, WF_vars(RunJob), written out with
\* ENABLED <<RunJob>>_vars replaced by its equal queue # <<>> (RunJobEnabled).
Fairness == (<>[](queue # <<>>)) => []<><<RunJob>>_vars

SpecLive == InitLive /\ [][Next]_vars /\ Fairness

\* ------------------------------------------- reducers: inputs and actions
MaxCount == 3           \* the store stops calling at this count in its state
MaxReads == 3           \* calls that make the lazy initializer run

CounterObject == Obj([n |-> Num(0)])

IncType == "counter/inc"
DecType == "counter/dec"

AcceptsInc == Matcher({IncType, "other"})
AcceptsBoth == Matcher({IncType, DecType})

MatcherLists ==
    {<<>>,
     <<[matcher |-> AcceptsInc, reducer |-> Fn("m1", "return")]>>,
     <<[matcher |-> AcceptsInc, reducer |-> Fn("m1", "return")],
       [matcher |-> AcceptsBoth, reducer |-> Fn("m2", "nothing")]>>,
     <<[matcher |-> AcceptsBoth, reducer |-> Fn("m2", "return")],
       [matcher |-> AcceptsInc, reducer |-> Fn("m1", "return")]>>}

\* createReducer(initialState, actionsMap, actionMatchers, defaultCaseReducer)
ReducerArgs ==
    {[api |-> "createReducer", initialState |-> i, actionsMap |-> Obj(m),
      actionMatchers |-> ms, defaultCaseReducer |-> d] :
        i \in {Num(0), CounterObject, Initializer(CounterObject)},
        m \in {EmptyObject,
               (IncType :> Fn("inc", "return")),
               (IncType :> Fn("inc", "return")) @@ (DecType :> Fn("dec", "return"))},
        ms \in MatcherLists,
        d \in {Undef, Fn("default", "return")}}

SliceReducers ==
    {(("inc") :> Fn("inc", "mutate")),
     (("inc") :> Fn("inc", "mutate"))
        @@ (("dec") :> Obj([reducer |-> Fn("dec", "return"),
                            prepare |-> Fn("prepareDec", "return")]))}

ExtraReducers ==
    {Undef,
     Obj(("other" :> Fn("extraOther", "return"))),
     Obj((IncType :> Fn("extraInc", "return")) @@ ("other" :> Fn("extraOther", "return"))),
     Builder(<<addCase(IncType, Fn("extraInc", "return")),
               addCase("other", Fn("extraOther", "mutate")),
               addMatcher(AcceptsInc, Fn("m1", "mutate")),
               addDefaultCase(Fn("default", "return"))>>)}

\* createSlice({ name, initialState, reducers, extraReducers })
SliceOptions ==
    {[api |-> "createSlice", name |-> "counter", initialState |-> i,
      reducers |-> r, extraReducers |-> e] :
        i \in {CounterObject, Initializer(CounterObject)},
        r \in SliceReducers, e \in ExtraReducers}

\* The actions the store passes on: those the slice's action creators make
\* and actions of other parts of the application.
Dispatched ==
    {[type |-> t, payload |-> Num(1)] : t \in {IncType, DecType, "other", "toString"}}
    \cup (IF options.api = "createSlice"
          THEN {CallActionCreator(actionCreators(options)[k], Num(1)) :
                    k \in reducerNames(options)}
          ELSE {})

\* After createReducer(...) or createSlice(...) has returned; no thunk runs.
InitR ==
    /\ task = NoOptions
    /\ native = TRUE
    /\ production \in BOOLEAN
    /\ inv = <<>>
    /\ log = <<>>
    /\ queue = <<>>
    /\ displayedWarning = [d \in {1} |-> FALSE]
    /\ console = 0
    /\ options \in ReducerArgs \cup SliceOptions
    /\ _reducer = IF options.api = "createReducer"
                  THEN createReducer(options.initialState, options.actionsMap,
                                     options.actionMatchers,
                                     options.defaultCaseReducer).v
                  ELSE Undef
    /\ hasWarnedAboutObjectNotation = FALSE
    /\ state = Undef
    /\ calls = <<>>
    /\ reads = 0
    /\ builds = 0
    /\ out = Undef

\* The store may call: its state is a count below the bound.
Callable ==
    /\ state.t \in {"undefined", "null", "number", "object"}
    /\ Count(state) < MaxCount
    /\ reads < MaxReads

\* What a call made of the reducer r leaves behind.
Record(call, st, action, res) ==
    /\ out' = [call |-> call, state |-> st, action |-> action,
               threw |-> res.threw, v |-> res.v]
    /\ calls' = res.calls
    /\ reads' = res.reads
    /\ state' = IF res.threw \/ call = "getInitialState" THEN state ELSE res.v

\* The store calls the reducer createReducer returned.
Reducer ==
    /\ options.api = "createReducer"
    /\ Callable
    /\ \E st \in {Undef, state}, action \in Dispatched :
          Record("reducer", st, action, reducer(_reducer, st, action, reads))
    /\ UNCHANGED <<task, native, production, inv, log, queue, displayedWarning,
                   console, options, _reducer, hasWarnedAboutObjectNotation,
                   builds>>

\* reducer.getInitialState(), part_000 line 335
GetInitialState ==
    /\ options.api = "createReducer"
    /\ Callable
    /\ Record("getInitialState", Undef, Undef,
              [threw |-> FALSE, calls |-> <<>>] @@ getInitialState(_reducer, reads))
    /\ UNCHANGED <<task, native, production, inv, log, queue, displayedWarning,
                   console, options, _reducer, hasWarnedAboutObjectNotation,
                   builds>>

\* mutant: `if (!_reducer)` is not tested, every call builds
WithBuiltReducerAlways(call, st, action) ==
    LET built == buildReducer(options)
    IN /\ builds' = builds + 1
       /\ hasWarnedAboutObjectNotation' = hasWarnedAboutObjectNotation
       /\ console' = console
       /\ _reducer' = IF built.threw THEN Undef ELSE built.v
       /\ Record(call, st, action,
                 IF built.threw
                 THEN [threw |-> TRUE, v |-> built.v, calls |-> <<>>, reads |-> reads]
                 ELSE IF call = "reducer"
                      THEN reducer(built.v, st, action, reads)
                      ELSE [threw |-> FALSE, calls |-> <<>>]
                               @@ getInitialState(built.v, reads))
       /\ UNCHANGED <<task, native, production, inv, log, queue, displayedWarning,
                      options>>

\* `if (!_reducer) _reducer = buildReducer()`, lines 422 and 433, with the
\* deprecation warning of lines 369-378. res is what the call then does with
\* the built reducer.
WithBuiltReducer(call, st, action) ==
    LET build == _reducer = Undef
        warn == /\ build /\ ~production
                /\ options.extraReducers.t = "object"
                /\ ~hasWarnedAboutObjectNotation
        built == IF build THEN buildReducer(options)
                 ELSE [threw |-> FALSE, v |-> _reducer]
    IN /\ builds' = IF build THEN builds + 1 ELSE builds
       /\ hasWarnedAboutObjectNotation' = (hasWarnedAboutObjectNotation \/ warn)
       /\ console' = IF warn THEN console + 1 ELSE console
       /\ _reducer' = IF built.threw THEN Undef ELSE built.v
       /\ Record(call, st, action,
                 IF built.threw
                 THEN [threw |-> TRUE, v |-> built.v, calls |-> <<>>, reads |-> reads]
                 ELSE IF call = "reducer"
                      THEN reducer(built.v, st, action, reads)
                      ELSE [threw |-> FALSE, calls |-> <<>>]
                               @@ getInitialState(built.v, reads))
       /\ UNCHANGED <<task, native, production, inv, log, queue, displayedWarning,
                      options>>

\* slice.reducer(state, action), lines 421-425
SliceReducer ==
    /\ options.api = "createSlice"
    /\ Callable
    /\ \E st \in {Undef, state}, action \in Dispatched :
          WithBuiltReducer("reducer", st, action)

\* slice.getInitialState(), lines 432-436
SliceGetInitialState ==
    /\ options.api = "createSlice"
    /\ Callable
    /\ WithBuiltReducer("getInitialState", Undef, Undef)

NextR == Reducer \/ GetInitialState \/ SliceReducer \/ SliceGetInitialState

SpecR == InitR /\ [][NextR]_vars

\* ------------------------------------------------- getDefaultMiddleware
\* getDefaultMiddleware.ts lines 14-16
isBoolean(x) == x.t = "boolean"

\* `const { thunk = true } = options`: the default stands in for undefined only.
OrTrue(x) == IF x = Undef THEN Bool(TRUE) ELSE x

\* redux-thunk's middleware, thunkMiddleware.withExtraArgument(extraArgument)
thunkMiddleware(extraArgument) ==
    [t |-> "function", id |-> "thunk", with |-> extraArgument]

createImmutableStateInvariantMiddleware(immutableOptions) ==
    [t |-> "function", id |-> "immutableCheck", with |-> immutableOptions]

createSerializableStateInvariantMiddleware(serializableOptions) ==
    [t |-> "function", id |-> "serializableCheck", with |-> serializableOptions]

\* mutant: the immutable check is pushed like the others
getDefaultMiddlewarePushOnly(opts, prod) ==
    LET thunk == OrTrue(opts.thunk)
        immutableCheck == OrTrue(opts.immutableCheck)
        serializableCheck == OrTrue(opts.serializableCheck)
    IN (IF Falsy(thunk) THEN <<>> ELSE <<thunkMiddleware(Undef)>>)
       \o (IF prod \/ Falsy(immutableCheck) THEN <<>>
           ELSE <<createImmutableStateInvariantMiddleware(Obj(EmptyObject))>>)
       \o (IF prod \/ Falsy(serializableCheck) THEN <<>>
           ELSE <<createSerializableStateInvariantMiddleware(Obj(EmptyObject))>>)

\* getDefaultMiddleware(options), lines 71-138: thunk is pushed, the immutable
\* check unshifted and the serializable check pushed.
getDefaultMiddleware(opts, prod) ==
    LET thunk == OrTrue(opts.thunk)
        immutableCheck == OrTrue(opts.immutableCheck)
        serializableCheck == OrTrue(opts.serializableCheck)
        a1 == IF Falsy(thunk) THEN <<>>
              ELSE IF isBoolean(thunk) THEN <<thunkMiddleware(Undef)>>
                   ELSE <<thunkMiddleware(thunk.f.extraArgument)>>
        a2 == IF prod \/ Falsy(immutableCheck) THEN a1
              ELSE <<createImmutableStateInvariantMiddleware(
                        IF isBoolean(immutableCheck) THEN Obj(EmptyObject)
                        ELSE immutableCheck)>> \o a1
    IN IF prod \/ Falsy(serializableCheck) THEN a2
       ELSE Append(a2, createSerializableStateInvariantMiddleware(
                           IF isBoolean(serializableCheck) THEN Obj(EmptyObject)
                           ELSE serializableCheck))

MiddlewareOptions ==
    {[api |-> "getDefaultMiddleware", thunk |-> th, immutableCheck |-> im,
      serializableCheck |-> se] :
        th \in {Undef, Bool(TRUE), Bool(FALSE), Obj([extraArgument |-> Num(7)])},
        im \in {Undef, Bool(TRUE), Bool(FALSE), Obj([warnAfter |-> Num(42)])},
        se \in {Undef, Bool(TRUE), Bool(FALSE), Obj([warnAfter |-> Num(42)])}}

\* Before getDefaultMiddleware(options) is called; no thunk, no reducer.
InitM ==
    /\ task = NoOptions
    /\ native = TRUE
    /\ production \in BOOLEAN
    /\ inv = <<>>
    /\ log = <<>>
    /\ queue = <<>>
    /\ displayedWarning = [d \in {1} |-> FALSE]
    /\ console = 0
    /\ options \in MiddlewareOptions
    /\ _reducer = Undef
    /\ hasWarnedAboutObjectNotation = FALSE
    /\ state = Undef
    /\ calls = <<>>
    /\ reads = 0
    /\ builds = 0
    /\ out = Undef

\* configureStore (or caller code) calls getDefaultMiddleware(options).
GetDefaultMiddleware ==
    /\ options.api = "getDefaultMiddleware"
    /\ out' = [call |-> "getDefaultMiddleware",
               v |-> getDefaultMiddleware(options, production)]
    /\ UNCHANGED <<task, native, production, inv, log, queue, displayedWarning,
                   console, options, _reducer, hasWarnedAboutObjectNotation,
                   state, calls, reads, builds>>

NextM == GetDefaultMiddleware

SpecM == InitM /\ [][NextM]_vars

\* ------------------------------------------- miniSerializeError on its own
MaxApplications == 3    \* calls of miniSerializeError on one thrown value

\* The objects that can be thrown: each common property is absent, a string
\* or a number, and there may be a property that is not a common one.
ThrownObjects ==
    {Obj([k \in D |-> IF k \in S THEN Str(k) ELSE Num(42)]) :
        D \in SUBSET (commonProperties \cup {"status"}),
        S \in SUBSET commonProperties}

\* The values that are not `typeof value === 'object'`, and null.
ThrownPrimitives ==
    {Undef, Null, Num(0), Num(7), Bool(TRUE), Bool(FALSE), Str(""), Str("oops")}

SerializeInputs ==
    ThrownObjects \cup ThrownPrimitives \cup {RejectWithValue(Str("bad"), Undef)}

\* A value was thrown; nothing is serialized yet.
InitS ==
    /\ task = NoOptions
    /\ native = TRUE
    /\ production = FALSE
    /\ inv = <<>>
    /\ log = <<>>
    /\ queue = <<>>
    /\ displayedWarning = [d \in {1} |-> FALSE]
    /\ console = 0
    /\ options = [api |-> "miniSerializeError"]
    /\ _reducer = Undef
    /\ hasWarnedAboutObjectNotation = FALSE
    /\ state \in SerializeInputs
    /\ calls = <<>>
    /\ reads = 0
    /\ builds = 0
    /\ out = Undef

\* miniSerializeError is called on the thrown value, and after that on the
\* result of the previous call.
MiniSerializeError ==
    /\ options.api = "miniSerializeError"
    /\ reads < MaxApplications
    /\ LET value == IF out = Undef THEN state ELSE out.v
       IN out' = [call |-> "miniSerializeError", arg |-> value,
                  v |-> miniSerializeError(value)]
    /\ reads' = reads + 1
    /\ UNCHANGED <<task, native, production, inv, log, queue, displayedWarning,
                   console, options, _reducer, hasWarnedAboutObjectNotation,
                   state, calls, builds>>

NextS == MiniSerializeError

SpecS == InitS /\ [][NextS]_vars

\* ================================================================ claims
\* What the engine itself has dispatched for invocation i, in order.
EngineLog(i) == SelectSeq(log, LAMBDA e : e.by = i /\ e.who = "engine")

IsPendingOf(a, r) ==
    /\ a.type = "fetchUser/pending"
    /\ a.payload = Undef
    /\ a.meta.arg = r.arg
    /\ a.meta.requestId = r.requestId
    /\ a.meta.requestStatus = "pending"

SucceededOf(r, V) ==
    [type |-> "fetchUser/fulfilled", payload |-> V,
     meta |-> [arg |-> r.arg, requestId |-> r.requestId,
               requestStatus |-> "fulfilled"]]

\* The case of C1: the payload creator returned (or resolved to) a plain value,
\* abort() was never called and no collaborator threw.
PlainSuccess(r) ==
    /\ r.opP.st = "fulfilled"
    /\ r.opP.v \in PlainValues
    /\ r.aborts = 0
    /\ ~r.selfAbort
    /\ r.threw = {}

\* C1: with the gate absent or passed, a plain return value V and no abort(),
\* the engine dispatches pending (no payload; arg, requestId R, status pending)
\* and then succeeded (payload V; arg, the same R, status fulfilled) and
\* nothing else; the handle resolves to that succeeded event and unwrap()
\* to V.
C1_PlainValueLifecycle ==
    \A i \in DOMAIN inv :
        LET r == inv[i]
            E == EngineLog(i)
        IN PlainSuccess(r) =>
            /\ Len(E) \in {1, 2}
            /\ IsPendingOf(E[1].action, r)
            /\ Len(E) = 2 => E[2].action = SucceededOf(r, r.opP.v)
            /\ Settled(r.promise) =>
                  Len(E) = 2 /\ r.promise = Fulfilled(SucceededOf(r, r.opP.v))
            /\ Settled(r.unwrapP) => r.unwrapP = Fulfilled(r.opP.v)

C1_Witness ==
    \E i \in DOMAIN inv :
        /\ PlainSuccess(inv[i])
        /\ inv[i].opP.v = Obj([id |-> Num(7)])
        /\ Len(EngineLog(i)) = 2
        /\ inv[i].unwrapP.st = "fulfilled"

IsFailed(a) == a.type = "fetchUser/rejected"

\* All dispatch calls made for invocation i, by the engine or by the operation.
DispatchesOf(i) == SelectSeq(log, LAMBDA e : e.by = i)

\* C2: if the gate returns false, directly or through a promise, the operation
\* is never invoked and the handle resolves to a failed event with
\* meta.condition = true; without dispatchConditionRejection nothing at all is
\* dispatched for the invocation, and with it exactly that failed event is
\* dispatched, once, with no pending before it.
C2_GateFalse ==
    \A i \in DOMAIN inv :
        LET r == inv[i]
            E == DispatchesOf(i)
        IN r.gate = Bool(FALSE) =>
            /\ r.opCalls = 0
            /\ ~r.started
            /\ (Settled(r.promise) /\ r.threw = {}) => r.promise.st = "fulfilled"
            /\ r.promise.st = "fulfilled" =>
                  /\ IsFailed(r.promise.v)
                  /\ r.promise.v.meta.condition
                  /\ ~r.promise.v.meta.aborted
                  /\ r.promise.v.meta.requestId = r.requestId
            /\ ~task.dispatchConditionRejection => E = <<>>
            /\ task.dispatchConditionRejection =>
                  /\ Len(E) <= 1
                  /\ r.promise.st = "fulfilled" =>
                        E = <<[by |-> i, who |-> "engine", action |-> r.promise.v,
                               threw |-> FALSE]>>

C2_Witness ==
    \E i \in DOMAIN inv :
        /\ inv[i].gate = Bool(FALSE)
        /\ inv[i].condP.st = "fulfilled"
        /\ task.dispatchConditionRejection
        /\ inv[i].promise.st = "fulfilled"
        /\ Len(DispatchesOf(i)) = 1

\* abortReason || 'Aborted'
ReasonText(reason) == IF Falsy(reason) THEN Str("Aborted") ELSE reason

IsAbortedBy(a, reason) ==
    /\ IsFailed(a)
    /\ a.meta.aborted
    /\ ~a.meta.condition
    /\ ~a.meta.rejectedWithValue
    /\ task.serializeError = "default" =>
          a.error = Obj([name |-> Str("AbortError"), message |-> ReasonText(reason)])

\* C3 as stated: abort(reason) called at any point after arming yields a
\* failed event with meta.aborted = true and the reason as its message (native
\* AbortController, default normalizer, no collaborator throwing).
C3_AbortAfterArmingAlwaysAborts ==
    \A i \in DOMAIN inv :
        LET r == inv[i]
        IN (native /\ r.abortedArmed /\ r.threw = {} /\ Settled(r.promise)) =>
              r.promise.st = "fulfilled" /\ IsAbortedBy(r.promise.v, r.firedBy)

\* C3 amended: when abort(reason) fires the signal after arming and before
\* the then-callback on the payload creator's promise has run (so at the
\* latest in the run in which that promise settles), and the payload creator
\* did not throw synchronously, the final event is failed with
\* meta.aborted = true and, with the default normalizer, the error
\* {name: 'AbortError', message: reason} ('Aborted' for an omitted or empty
\* reason), whatever the operation's own outcome; the handle resolves to it.
C3_AbortBeforeSettlementWins ==
    \A i \in DOMAIN inv :
        LET r == inv[i]
        IN (r.firedEarly /\ "payloadCreator" \notin r.threw /\ r.finalAction # Undef) =>
              /\ IsAbortedBy(r.finalAction, r.firedBy)
              /\ r.promise.st = "fulfilled" => r.promise.v = r.finalAction

C3_Witness ==
    \E i \in DOMAIN inv :
        /\ inv[i].firedEarly
        /\ inv[i].abortedArmed
        /\ inv[i].firedBy = Str("timeout")
        /\ inv[i].opP.st = "fulfilled"
        /\ inv[i].opP.v \in PlainValues
        /\ inv[i].promise.st = "fulfilled"
        /\ inv[i].promise.v.meta.aborted
        /\ inv[i].promise.v.error.f.message = Str("timeout")

\* The case of C4: abort() was called, and only while the controller was unarmed.
UnarmedOnly(r) == r.abortedUnarmed /\ ~r.abortedArmed /\ ~r.selfAbort

\* The final event the operation's own outcome determines.
NaturalOutcome(r) ==
    IF "payloadCreator" \in r.threw
    THEN Classify(r.thrown, r.requestId, r.arg)
    ELSE LET D == IF r.opP.st = "rejected" THEN r.opP
                  ELSE OnResult(r.opP.v, r.requestId, r.arg)
         IN IF D.st = "fulfilled" THEN D.v ELSE Classify(D.v, r.requestId, r.arg)

\* C4 as stated: abort() while unarmed is a no-op, the operation sees a
\* non-aborted signal, and the final event has meta.aborted = false.
C4_UnarmedAbortNeverAborted ==
    \A i \in DOMAIN inv :
        LET r == inv[i]
        IN UnarmedOnly(r) =>
            /\ ~r.signalAborted
            /\ ~r.opSawAborted
            /\ (r.opCalls > 0 /\ r.finalAction # Undef /\ IsFailed(r.finalAction)) =>
                  ~r.finalAction.meta.aborted

\* C4 amended: abort() while unarmed is a no-op: the signal does not fire; if
\* the gate then passes the operation is invoked with a non-aborted signal and
\* the final event is the one the operation alone determines, whose
\* meta.aborted is false unless the operation itself threw (or rejected with)
\* a value named 'AbortError'.
C4_UnarmedAbortIsNoOp ==
    \A i \in DOMAIN inv :
        LET r == inv[i]
        IN UnarmedOnly(r) =>
            /\ ~r.signalAborted
            /\ r.abortedPromise.st # "rejected"
            /\ r.abortReason = Undef
            /\ ~r.opSawAborted
            /\ (r.opCalls > 0 /\ r.finalAction # Undef) =>
                  /\ r.finalAction = NaturalOutcome(r)
                  /\ (IsFailed(r.finalAction) /\ r.finalAction.meta.aborted) =>
                        \/ r.opP = Rejected(Obj([name |-> Str("AbortError")]))
                        \/ r.thrown = Obj([name |-> Str("AbortError")])

C4_Witness ==
    \E i \in DOMAIN inv :
        /\ UnarmedOnly(inv[i])
        /\ inv[i].condP.st = "fulfilled"
        /\ inv[i].opCalls = 1
        /\ inv[i].promise.st = "fulfilled"
        /\ inv[i].promise.v.type = "fetchUser/fulfilled"

CancellationWon(r) ==
    /\ r.firedEarly
    /\ r.finalAction # Undef
    /\ IsFailed(r.finalAction)
    /\ r.finalAction.meta.aborted

\* C6: once cancellation has won and the aborted event is built, no later step
\* (in particular no later settlement of the operation) makes the engine
\* dispatch again or changes the event of the handle; unwrap() fails with
\* that event's error.
C6_AbortedIsFinal ==
    [][\A i \in DOMAIN inv :
          CancellationWon(inv[i]) =>
            /\ EngineLog(i)' = EngineLog(i)
            /\ inv'[i].finalAction = inv[i].finalAction
            /\ inv'[i].promise = inv[i].promise
            /\ Settled(inv[i].unwrapP) => inv'[i].unwrapP = inv[i].unwrapP
            /\ (Settled(inv'[i].unwrapP) /\ inv[i].promise.st = "fulfilled") =>
                  inv'[i].unwrapP = Rejected(inv[i].finalAction.error)]_vars

C6_Witness ==
    \E i \in DOMAIN inv :
        /\ CancellationWon(inv[i])
        /\ inv[i].lateSettle
        /\ inv[i].opD.st = "fulfilled"
        /\ queue = <<>>
        /\ inv[i].unwrapP.st = "rejected"
        /\ Len(EngineLog(i)) = 2

FromWrapper(r) == r.race.st = "rejected" /\ r.race.v.t = "RejectWithValue"

\* keys of the metadata that the engine writes on a failed event
FailedMetaKeys ==
    {"arg", "requestId", "rejectedWithValue", "requestStatus", "aborted", "condition"}

\* C8: an operation returning rejectWithValue(P, M) yields a failed event with
\* payload P, meta.rejectedWithValue = true and metadata containing the
\* entries of M (those under keys the engine does not write itself).
C8_FailureWrapper ==
    \A i \in DOMAIN inv :
        LET r == inv[i]
            M == MetaOrEmpty(r.race.v.meta)
        IN (FromWrapper(r) /\ r.finalAction # Undef) =>
              /\ IsFailed(r.finalAction)
              /\ r.finalAction.payload = r.race.v.payload
              /\ r.finalAction.meta.rejectedWithValue
              /\ \A k \in (DOMAIN M) \ FailedMetaKeys : r.finalAction.meta[k] = M[k]

\* C9: unwrap() resolves to the payload of a succeeded event; for a failed
\* event it fails with the payload when the operation produced the failure
\* wrapper and with the event's error otherwise.
C9_Unwrap ==
    \A i \in DOMAIN inv :
        LET r == inv[i]
            a == r.promise.v
        IN (r.promise.st = "fulfilled" /\ Settled(r.unwrapP)) =>
              IF ~IsFailed(a) THEN r.unwrapP = Fulfilled(a.payload)
              ELSE IF FromWrapper(r) THEN r.unwrapP = Rejected(a.payload)
              ELSE r.unwrapP = Rejected(a.error)

\* C10: a value thrown synchronously by `condition` or by the payload creator
\* does not leave the thunk call: the call returns the handle, and the failed
\* event built from the thrown value is the final event, to which the handle
\* resolves (it fails only if serializeError or the final dispatch throws).
C10_SyncThrowBecomesFailedEvent ==
    \A i \in DOMAIN inv :
        LET r == inv[i]
        IN r.threw \cap {"condition", "payloadCreator"} # {} =>
            /\ r.pc \in {"returned", "failed"}
            /\ Settled(r.promise)
            /\ r.promise.st = "rejected" =>
                  r.threw \cap {"serializeError", "dispatchFinal"} # {}
            /\ r.promise.st = "fulfilled" => r.promise.v = r.finalAction
            /\ r.finalAction # Undef =>
                  /\ IsFailed(r.finalAction)
                  /\ ~r.finalAction.meta.rejectedWithValue
                  /\ r.finalAction.payload = Undef
                  /\ r.finalAction.meta.requestId = r.requestId
                  /\ r.finalAction.error =
                        SerializeError(IF Falsy(r.thrown) THEN Str("Rejected")
                                       ELSE r.thrown)
                  /\ (r.thrown = PlainError /\ task.serializeError = "default") =>
                        r.finalAction.error =
                            Obj([name |-> Str("Error"), message |-> Str("boom")])

C10_Witness ==
    \E i \in DOMAIN inv :
        /\ "payloadCreator" \in inv[i].threw
        /\ inv[i].thrown = PlainError
        /\ inv[i].promise.st = "fulfilled"
        /\ IsFailed(inv[i].promise.v)
        /\ inv[i].promise.v.error.f.message = Str("boom")

\* C11: a dispatch call of the engine that throws is never turned into a
\* failed event of the invocation: after it no final event is built and the
\* handle does not resolve to an event; and whatever the engine dispatches
\* besides pending is the final event, after classification, as its last
\* dispatch.
C11_DispatchFailureNotReclassified ==
    \A k \in DOMAIN log :
        LET e == log[k]
            r == inv[e.by]
            E == EngineLog(e.by)
        IN e.who = "engine" =>
            /\ e.threw =>
                  /\ r.finalAction # Undef => e.action = r.finalAction
                  /\ r.promise.st # "fulfilled"
            /\ e.action.type # "fetchUser/pending" =>
                  /\ e.action = r.finalAction
                  /\ E[Len(E)] = e

\* status of an event type
StatusOf(a) ==
    CASE a.type = "fetchUser/pending" -> "pending"
      [] a.type = "fetchUser/fulfilled" -> "fulfilled"
      [] OTHER -> "rejected"

\* The metadata every event of invocation r must carry.
EngineMeta(a, r) ==
    /\ a.meta.arg = r.arg
    /\ a.meta.requestId = r.requestId
    /\ a.meta.requestStatus = StatusOf(a)
    /\ IsFailed(a) =>
          /\ {"aborted", "condition", "rejectedWithValue"} \subseteq DOMAIN a.meta
          /\ a.meta.aborted \in BOOLEAN
          /\ a.meta.condition \in BOOLEAN
          /\ a.meta.rejectedWithValue \in BOOLEAN
          /\ (FromWrapper(r) /\ ~Falsy(r.race.v.payload)) =>
                /\ ~a.meta.aborted
                /\ ~a.meta.condition
                /\ a.meta.rejectedWithValue

\* C12: every event the engine dispatches, builds as final event or resolves
\* the handle to has metadata with the invocation's arg, requestId and status,
\* and a failed event has boolean aborted, condition and rejectedWithValue;
\* entries of caller metadata under those keys (getPendingMeta, the success
\* and the failure wrapper) never replace the engine's values.
C12_EngineMetadata ==
    /\ \A k \in DOMAIN log :
          log[k].who = "engine" => EngineMeta(log[k].action, inv[log[k].by])
    /\ \A i \in DOMAIN inv :
          /\ inv[i].finalAction # Undef => EngineMeta(inv[i].finalAction, inv[i])
          /\ inv[i].promise.st = "fulfilled" => EngineMeta(inv[i].promise.v, inv[i])

\* all three kinds of caller metadata collided with the engine's keys
C12_Witness ==
    \E i \in DOMAIN inv :
        /\ task.getPendingMeta
        /\ Len(EngineLog(i)) = 2
        /\ FromWrapper(inv[i])
        /\ inv[i].race.v.meta = CallerMeta
        /\ inv[i].promise.st = "fulfilled"
        /\ inv[i].promise.v.meta.extra = Num(1)
        /\ inv[i].promise.v.meta.rejectedWithValue

\* positions in the log of the dispatches of pending made for invocation i
PendingAt(i) ==
    {k \in DOMAIN log : /\ log[k].by = i
                        /\ log[k].who = "engine"
                        /\ log[k].action.type = "fetchUser/pending"}

\* C13: when the payload creator is invoked the controller is armed and
\* pending has been dispatched (the store accepted it), so the dispatch of
\* pending precedes every dispatch the payload creator makes; pending is
\* dispatched at most once per invocation, and never when the gate returned
\* false.
C13_PendingFirst ==
    \A i \in DOMAIN inv :
        LET r == inv[i]
        IN /\ Cardinality(PendingAt(i)) <= 1
           /\ r.gate = Bool(FALSE) => PendingAt(i) = {}
           /\ r.opCalls > 0 =>
                 /\ r.started
                 /\ \E p \in PendingAt(i) :
                       /\ ~log[p].threw
                       /\ \A k \in DOMAIN log :
                             (log[k].by = i /\ log[k].who = "op") => p < k

C13_Witness ==
    \E i \in DOMAIN inv :
        /\ inv[i].condP = Fulfilled(Bool(TRUE))
        /\ inv[i].opCalls = 1
        /\ Len(DispatchesOf(i)) >= 2
        /\ DispatchesOf(i)[1].who = "engine"
        /\ DispatchesOf(i)[2].who = "op"

\* dispatches of a final (not pending) event made by the engine for invocation i
FinalAt(i) ==
    {k \in DOMAIN log : /\ log[k].by = i
                        /\ log[k].who = "engine"
                        /\ log[k].action.type # "fetchUser/pending"}

\* C14: once the final event of an invocation is built the engine dispatches
\* it exactly once, except that a failed event with meta.condition = true is
\* not dispatched whenever dispatchConditionRejection has not been set to
\* true, the case of no options at all included.
C14_FinalDispatchedOnceUnlessSuppressed ==
    \A i \in DOMAIN inv :
        LET r == inv[i]
            a == r.finalAction
        IN a # Undef =>
             /\ \A k \in FinalAt(i) : log[k].action = a
             /\ IF IsFailed(a) /\ a.meta.condition /\ ~task.dispatchConditionRejection
                THEN FinalAt(i) = {}
                ELSE Cardinality(FinalAt(i)) = 1

\* The events of invocation i: dispatched by the engine, built as final event,
\* resolved for the handle.
EventsOf(i) ==
    {log[k].action : k \in {n \in DOMAIN log : log[n].by = i /\ log[n].who = "engine"}}
    \cup (IF inv[i].finalAction # Undef THEN {inv[i].finalAction} ELSE {})
    \cup (IF inv[i].promise.st = "fulfilled" THEN {inv[i].promise.v} ELSE {})

\* C15: two concurrent invocations with different inputs get different request
\* ids (nanoid), under every interleaving of their steps, and every event
\* dispatched by or resolved for an invocation carries that invocation's own
\* request id and input and not the other's.
C15_OwnIdAndInput ==
    \A i \in DOMAIN inv :
        /\ \A j \in (DOMAIN inv) \ {i} :
              /\ inv[i].requestId # "" => inv[i].requestId # inv[j].requestId
              /\ inv[i].pc # "new" => inv[i].arg # inv[j].arg
              /\ \A a \in EventsOf(i) :
                    /\ a.meta.requestId # inv[j].requestId
                    /\ a.meta.arg # inv[j].arg
        /\ \A a \in EventsOf(i) :
              /\ a.meta.requestId = inv[i].requestId
              /\ a.meta.arg = inv[i].arg

\* both lifecycles ran interleaved: pending 1, pending 2, then both final events
C15_Witness ==
    /\ DOMAIN inv = {1, 2}
    /\ Len(log) >= 4
    /\ log[1].by = 1 /\ log[1].who = "engine"
    /\ \E k \in DOMAIN log : k < Len(log) /\ log[k].by = 2 /\ log[k].who = "engine"
    /\ log[Len(log)].by = 1
    /\ inv[1].promise.st = "fulfilled"
    /\ inv[2].promise.st = "fulfilled"
    /\ inv[1].promise.v.meta.requestId = "nano1"
    /\ inv[2].promise.v.meta.requestId = "nano2"

\* the jobs of invocation j in the microtask queue, in order
JobsOf(q, j) == SelectSeq(q, LAMBDA e : e.i = j)

\* A step is local to invocation i: it leaves the closure, the dispatches and
\* the queued jobs of every other invocation as they are.
LocalTo(i) ==
    \A j \in (DOMAIN inv) \ {i} :
        /\ inv'[j] = inv[j]
        /\ SelectSeq(log', LAMBDA e : e.by = j) = DispatchesOf(j)
        /\ JobsOf(queue', j) = JobsOf(queue, j)

\* C16 as stated: invocations share no mutable engine state: every step is
\* local to one invocation and writes no engine state outside that
\* invocation's closure.
C16_NoSharedEngineState ==
    [][/\ \E i \in DOMAIN inv : LocalTo(i)
       /\ displayedWarning' = displayedWarning]_vars

\* C16 amended: the only engine state invocations of one task share is the
\* flag displayedWarning of the fallback controller, which goes from false to
\* true once, outside production without a native AbortController, and
\* decides only whether abort() logs. Every step is local to one invocation:
\* abort() on one handle never arms or fires another invocation, and an
\* invocation on which abort() was not called keeps an unfired signal and
\* ends with the final event its own gate and operation determine.
C16_InvocationsIndependent ==
    [][/\ \E i \in DOMAIN inv : LocalTo(i)
       /\ displayedWarning' # displayedWarning =>
             /\ ~native /\ ~production
             /\ ~displayedWarning[1] /\ displayedWarning'[1]
             /\ console' = console + 1
       /\ displayedWarning' = displayedWarning => console' = console
       /\ \A j \in DOMAIN inv :
             inv'[j].aborts = 0 =>
               /\ ~inv'[j].signalAborted
               /\ inv'[j].abortReason = Undef
               /\ (inv'[j].finalAction # Undef /\ inv'[j].opCalls > 0) =>
                     inv'[j].finalAction = NaturalOutcome(inv'[j])]_vars

\* invocation 1 was aborted after arming and ended aborted while invocation 2,
\* armed at that time, ended with its operation's value
C16_Witness ==
    /\ DOMAIN inv = {1, 2}
    /\ inv[1].abortedArmed
    /\ inv[1].promise.st = "fulfilled"
    /\ IsFailed(inv[1].promise.v)
    /\ inv[1].promise.v.meta.aborted
    /\ inv[2].aborts = 0
    /\ inv[2].started
    /\ inv[2].promise.st = "fulfilled"
    /\ inv[2].promise.v.type = "fetchUser/fulfilled"
    /\ Len(EngineLog(2)) = 2

\* The value the engine caught was thrown by the payload creator, or is the
\* rejection of its promise.
CaughtFromOp(r) ==
    \/ "payloadCreator" \in r.threw /\ r.caught = r.thrown
    \/ r.opP = Rejected(r.caught) /\ r.race = Rejected(r.caught)

\* The value the engine caught was thrown before the payload creator was
\* called: by `condition` or the rejection of its promise, by getPendingMeta
\* or by the store's dispatch of pending.
CaughtBeforeOp(r) ==
    /\ r.opCalls = 0
    /\ \/ /\ r.threw \cap {"condition", "getPendingMeta", "dispatchPending"} # {}
          /\ r.caught = r.thrown
       \/ /\ "conditionPromise" \in r.threw
          /\ r.condP = Rejected(r.caught)

\* The value the engine caught is the rejection made by the 'abort' listener.
CaughtFromSignal(r) ==
    /\ r.started /\ r.signalAborted
    /\ r.caught = AbortRejection(r.firedBy)
    /\ r.race = Rejected(r.caught)

\* C17 as stated: a failed event has meta.aborted = true only if the
\* invocation's controller fired after arming, and meta.condition = true only
\* if its gate returned false; no value of the operation produces either.
C17_FlagsOnlyFromEngine ==
    \A i \in DOMAIN inv :
        LET r == inv[i]
            a == r.finalAction
        IN (a # Undef /\ IsFailed(a)) =>
              /\ a.meta.aborted => (r.started /\ r.signalAborted)
              /\ a.meta.condition => r.gate = Bool(FALSE)

\* C17 amended: a failed event has meta.aborted = true only if the value the
\* engine caught is named 'AbortError': the rejection made when the
\* invocation's controller fired after arming, or a value so named that the
\* operation, or a step before it (the gate, getPendingMeta, the dispatch of
\* pending), threw or rejected with; and meta.condition = true only if the
\* caught value is named 'ConditionError': the gate returned false (and the
\* operation was not invoked), or the operation or a step before it threw or
\* rejected with a value so named.
C17_FlagsFollowCaughtName ==
    \A i \in DOMAIN inv :
        LET r == inv[i]
            a == r.finalAction
        IN (a # Undef /\ IsFailed(a)) =>
              /\ a.meta.aborted =>
                    /\ NameOf(r.caught) = Str("AbortError")
                    /\ CaughtFromSignal(r) \/ CaughtFromOp(r) \/ CaughtBeforeOp(r)
              /\ a.meta.condition =>
                    /\ NameOf(r.caught) = Str("ConditionError")
                    /\ \/ r.gate = Bool(FALSE) /\ r.opCalls = 0
                       \/ CaughtFromOp(r)
                       \/ CaughtBeforeOp(r)

\* the operation's promise rejected with {name: 'AbortError'}; abort() never called
C17_Witness ==
    \E i \in DOMAIN inv :
        /\ inv[i].aborts = 0 /\ ~inv[i].selfAbort
        /\ inv[i].opP = Rejected(Obj([name |-> Str("AbortError")]))
        /\ inv[i].promise.st = "fulfilled"
        /\ IsFailed(inv[i].promise.v)
        /\ inv[i].promise.v.meta.aborted

\* the name field of a normalized error
NormalizedName(a) ==
    IF "name" \in DOMAIN a.error.f THEN a.error.f.name ELSE Undef

\* C18 as stated: on every failed event, whatever the normalizer, meta.aborted
\* is true exactly when the name of the event's normalized error is
\* 'AbortError', and meta.condition exactly when it is 'ConditionError'.
C18_FlagsFromNormalizedName ==
    \A i \in DOMAIN inv :
        LET a == inv[i].finalAction
        IN (a # Undef /\ IsFailed(a)) =>
              /\ a.meta.aborted <=> (NormalizedName(a) = Str("AbortError"))
              /\ a.meta.condition <=> (NormalizedName(a) = Str("ConditionError"))

\* C18 amended: on every failed event meta.aborted is true exactly when the
\* name of the value the engine caught, before normalization, is 'AbortError'
\* and meta.condition exactly when it is 'ConditionError'; with the default
\* normalizer that is exactly when the name of the event's normalized error
\* is that string, while a custom normalizer has no influence on the flags.
C18_FlagsFromCaughtName ==
    \A i \in DOMAIN inv :
        LET r == inv[i]
            a == r.finalAction
        IN (a # Undef /\ IsFailed(a)) =>
              /\ a.meta.aborted <=> (NameOf(r.caught) = Str("AbortError"))
              /\ a.meta.condition <=> (NameOf(r.caught) = Str("ConditionError"))
              /\ task.serializeError = "default" =>
                    /\ a.meta.aborted <=> (NormalizedName(a) = Str("AbortError"))
                    /\ a.meta.condition <=>
                          (NormalizedName(a) = Str("ConditionError"))

\* a custom normalizer dropped the name of the abort rejection
C18_Witness ==
    \E i \in DOMAIN inv :
        /\ task.serializeError = "custom"
        /\ CaughtFromSignal(inv[i])
        /\ inv[i].promise.st = "fulfilled"
        /\ IsFailed(inv[i].promise.v)
        /\ inv[i].promise.v.meta.aborted
        /\ NormalizedName(inv[i].promise.v) = Undef

\* The value the operation itself threw or rejected with decided the
\* invocation, and it is not the failure wrapper.
OpFailedWith(r, v) ==
    /\ r.caught = v
    /\ CaughtFromOp(r)
    /\ v.t # "RejectWithValue"

\* C19: an operation that throws, or whose promise rejects with, a value other
\* than the failure wrapper yields a failed event with
\* meta.rejectedWithValue = false and no payload whose error is the output of
\* the normalizer; with the default normalizer the error of a thrown object
\* has exactly the fields among name, message, stack, code that are strings
\* on the thrown object, with their values.
C19_ThrownValueNormalized ==
    \A i \in DOMAIN inv :
        LET r == inv[i]
            a == r.finalAction
            v == r.caught
        IN (a # Undef /\ OpFailedWith(r, v)) =>
              /\ IsFailed(a)
              /\ ~a.meta.rejectedWithValue
              /\ a.payload = Undef
              /\ task.serializeError = "custom" => a.error = customSerializeError(v)
              /\ (task.serializeError = "default" /\ v.t = "object") =>
                    /\ a.error.t = "object"
                    /\ DOMAIN a.error.f =
                          {k \in {"name", "message", "stack", "code"} \cap DOMAIN v.f :
                              v.f[k].t = "string"}
                    /\ \A k \in DOMAIN a.error.f : a.error.f[k] = v.f[k]
              /\ (task.serializeError = "default" /\ v = PlainError) =>
                    a.error = Obj([name |-> Str("Error"), message |-> Str("boom")])
              /\ (task.serializeError = "default" /\ v = Str("oops")) =>
                    a.error = Obj([message |-> Str("oops")])
              /\ (task.serializeError = "default" /\ v = Undef) =>
                    a.error = Obj([message |-> Str("Rejected")])

\* the promise of the operation rejected with an object whose code is a number
C19_Witness ==
    \E i \in DOMAIN inv :
        /\ task.serializeError = "default"
        /\ inv[i].opP = Rejected(PlainError)
        /\ OpFailedWith(inv[i], PlainError)
        /\ inv[i].promise.st = "fulfilled"
        /\ IsFailed(inv[i].promise.v)
        /\ DOMAIN inv[i].promise.v.error.f = {"name", "message"}

\* keys of the metadata that the engine writes on a succeeded event
FulfilledMetaKeys == {"arg", "requestId", "requestStatus"}

\* C20: an operation returning fulfillWithValue(V, M), whose result decides
\* the race, yields a succeeded event with payload V whose metadata has the
\* entries of M (under the keys the engine does not write itself) together
\* with the invocation's arg, requestId and the status fulfilled; the handle
\* resolves to it.
C20_SuccessWrapper ==
    \A i \in DOMAIN inv :
        LET r == inv[i]
            a == r.finalAction
            M == MetaOrEmpty(r.opP.v.meta)
        IN (r.opP.st = "fulfilled" /\ r.opP.v.t = "FulfillWithMeta"
            /\ r.race.st = "fulfilled" /\ a # Undef) =>
              /\ a.type = "fetchUser/fulfilled"
              /\ a.payload = r.opP.v.payload
              /\ DOMAIN a.meta = (DOMAIN M) \cup FulfilledMetaKeys
              /\ \A k \in (DOMAIN M) \ FulfilledMetaKeys : a.meta[k] = M[k]
              /\ a.meta.arg = r.arg
              /\ a.meta.requestId = r.requestId
              /\ a.meta.requestStatus = "fulfilled"
              /\ r.promise.st = "fulfilled" => r.promise.v = a

C20_Witness ==
    \E i \in DOMAIN inv :
        /\ inv[i].opP = Fulfilled(FulfillWithMeta(Num(7), CallerMeta))
        /\ inv[i].promise.st = "fulfilled"
        /\ inv[i].promise.v.type = "fetchUser/fulfilled"
        /\ inv[i].promise.v.payload = Num(7)
        /\ inv[i].promise.v.meta.extra = Num(1)
        /\ Len(EngineLog(i)) = 2

\* The race of r was decided by the rejection of abortedPromise.
SignalWon(r) ==
    /\ r.signalAborted
    /\ r.race.st = "rejected"
    /\ r.race.v = r.abortedPromise.v
    /\ r.finalAction # Undef

\* C21 as stated: after arming the signal fires once however often abort() is
\* called, and the aborted event carries the reason of the abort() call that
\* fired it, 'Aborted' standing for an omitted reason only; later abort()
\* calls change nothing.
C21_FiresOnceWithReason ==
    [][\A i \in DOMAIN inv :
          LET r == inv[i]
              n == inv'[i]
          IN /\ r.signalAborted =>
                   /\ n.signalAborted
                   /\ n.firedBy = r.firedBy
                   /\ n.abortedPromise = r.abortedPromise
             /\ (SignalWon(n) /\ task.serializeError = "default") =>
                   /\ IsFailed(n.finalAction) /\ n.finalAction.meta.aborted
                   /\ n.finalAction.error.f.message =
                         (IF n.firedBy = Undef THEN Str("Aborted") ELSE n.firedBy)]_vars

\* C21 amended: after arming the signal fires once however often abort() is
\* called: the first abort() after arming rejects abortedPromise and later
\* calls, whatever their reason, leave it as it is; the aborted event carries
\* the reason of the call that fired the signal, 'Aborted' standing for a
\* reason that is omitted or is the empty string.
C21_FiresOnceReasonOrDefault ==
    [][\A i \in DOMAIN inv :
          LET r == inv[i]
              n == inv'[i]
          IN /\ r.signalAborted =>
                   /\ n.signalAborted
                   /\ n.firedBy = r.firedBy
                   /\ n.abortedPromise = r.abortedPromise
             /\ n.signalAborted => n.started /\ n.abortedPromise.st = "rejected"
             /\ SignalWon(n) => IsAbortedBy(n.finalAction, n.firedBy)]_vars

\* two abort() calls after arming with different reasons; the first one stays
C21_Witness ==
    \E i \in DOMAIN inv :
        /\ inv[i].aborts = 2 /\ ~inv[i].abortedUnarmed /\ ~inv[i].selfAbort
        /\ inv[i].firedBy = Str("timeout")
        /\ inv[i].abortReason = Undef
        /\ SignalWon(inv[i])
        /\ inv[i].promise.st = "fulfilled"
        /\ inv[i].promise.v.error.f.message = Str("timeout")

\* the result of the gate, returned directly or resolved by its promise
GateValue(r) == IF r.condP.st = "fulfilled" THEN r.condP.v ELSE r.gate

\* the failed event of a gate that returned false
ConditionRejected(r) ==
    [type |-> "fetchUser/rejected", payload |-> Undef,
     error |-> SerializeError(
                  Obj([name |-> Str("ConditionError"),
                       message |-> Str("Aborted due to condition callback returning false.")])),
     meta |-> [arg |-> r.arg, requestId |-> r.requestId, rejectedWithValue |-> FALSE,
               requestStatus |-> "rejected", aborted |-> FALSE, condition |-> TRUE]]

\* C22: the gate rejects exactly when its result is false and passes when it
\* is absent, true or any other value; what is dispatched and what the handle
\* resolves to is determined by that result alone, the same whether the
\* result was returned directly or through a promise.
C22_GateUniform ==
    \A i \in DOMAIN inv :
        LET r == inv[i]
            g == GateValue(r)
            decided == /\ r.pc \notin {"new", "built", "threw"}
                       /\ r.gate = g /\ ~isThenable(g)
                       /\ r.threw \cap {"condition", "conditionPromise"} = {}
        IN /\ g = Bool(FALSE) =>
                 /\ r.opCalls = 0 /\ ~r.started /\ PendingAt(i) = {}
                 /\ r.finalAction # Undef => r.finalAction = ConditionRejected(r)
                 /\ r.promise.st = "fulfilled" =>
                       /\ r.promise.v = ConditionRejected(r)
                       /\ DispatchesOf(i) =
                             (IF task.dispatchConditionRejection
                              THEN <<[by |-> i, who |-> "engine",
                                      action |-> ConditionRejected(r), threw |-> FALSE]>>
                              ELSE <<>>)
           /\ (decided /\ g # Bool(FALSE)) =>
                 /\ r.started
                 /\ "getPendingMeta" \in r.threw \/ Cardinality(PendingAt(i)) = 1
                 /\ r.threw = {} => r.opCalls = 1
           /\ (r.finalAction # Undef /\ r.opCalls = 0 /\ r.threw = {}) =>
                 g = Bool(FALSE)

\* a deferred gate resolved to 0, which is not false: the operation ran
C22_Witness ==
    \E i \in DOMAIN inv :
        /\ inv[i].condP = Fulfilled(Num(0))
        /\ inv[i].gate = Num(0)
        /\ inv[i].opCalls = 1
        /\ inv[i].promise.st = "fulfilled"
        /\ inv[i].promise.v.type = "fetchUser/fulfilled"

\* the final event a is one the engine does not dispatch
Suppressed(a) ==
    /\ task.hasOptions /\ ~task.dispatchConditionRejection
    /\ IsFailed(a) /\ a.meta.condition

\* C23: when the handle resolves, the final event has been dispatched (unless
\* it is suppressed) and accepted by the store, as the engine's last dispatch,
\* and the handle resolves to that very event; after that the engine
\* dispatches nothing more for the invocation.
C23_ResolvesAfterDispatch ==
    [][\A i \in DOMAIN inv :
          LET n == inv'[i]
              E == EngineLog(i)'
          IN /\ n.promise.st = "fulfilled" =>
                   /\ n.promise.v = n.finalAction
                   /\ IF Suppressed(n.finalAction)
                      THEN \A k \in DOMAIN E : E[k].action.type = "fetchUser/pending"
                      ELSE /\ Len(E) >= 1
                           /\ E[Len(E)].action = n.promise.v
                           /\ ~E[Len(E)].threw
             /\ inv[i].promise.st = "fulfilled" => E = EngineLog(i)]_vars

\* the handle resolved, and the operation's promise settled after that
C23_Witness ==
    \E i \in DOMAIN inv :
        /\ inv[i].promise.st = "fulfilled"
        /\ Len(EngineLog(i)) = 2
        /\ inv[i].lateSettle
        /\ Settled(inv[i].opD)
        /\ queue = <<>>

\* C24 as stated: without a native AbortController, abort() after arming
\* fires no signal, no event with meta.aborted = true is ever produced, and
\* the invocation ends with the operation's own outcome.
C24_FallbackNeverAborted ==
    \A i \in DOMAIN inv :
        LET r == inv[i]
        IN ~native =>
              /\ ~r.signalAborted
              /\ r.abortedPromise.st # "rejected"
              /\ (r.finalAction # Undef /\ r.opCalls > 0) =>
                    r.finalAction = NaturalOutcome(r)
              /\ (r.finalAction # Undef /\ IsFailed(r.finalAction)) =>
                    ~r.finalAction.meta.aborted

\* C24 amended: without a native AbortController, abort() after arming fires
\* no signal and rejects nothing, the operation never sees an aborted signal,
\* and the invocation ends with the operation's own outcome as if abort() had
\* not been called; abort() produces no aborted event, so an event has
\* meta.aborted = true only when the operation itself threw or rejected with
\* a value named 'AbortError'.
C24_FallbackInert ==
    \A i \in DOMAIN inv :
        LET r == inv[i]
        IN ~native =>
              /\ ~r.signalAborted
              /\ r.abortedPromise.st # "rejected"
              /\ ~r.opSawAborted
              /\ r.firedBy = Undef /\ ~r.firedEarly
              /\ (r.finalAction # Undef /\ r.opCalls > 0) =>
                    r.finalAction = NaturalOutcome(r)
              /\ (r.finalAction # Undef /\ IsFailed(r.finalAction)
                  /\ r.finalAction.meta.aborted) =>
                    /\ CaughtFromOp(r)
                    /\ NameOf(r.caught) = Str("AbortError")

\* abort('timeout') after arming on the fallback: the operation's value stands
C24_Witness ==
    \E i \in DOMAIN inv :
        /\ ~native
        /\ inv[i].abortedArmed
        /\ inv[i].abortReason = Str("timeout")
        /\ inv[i].lateSettle = FALSE
        /\ inv[i].opP.st = "fulfilled"
        /\ inv[i].promise.st = "fulfilled"
        /\ inv[i].promise.v.type = "fetchUser/fulfilled"

\* C25: the diagnostic of the fallback controller is logged at most once in
\* the process, across all task definitions and invocations, and a flag that
\* is set is never reset.
C25_LoggedOncePerProcess ==
    [][/\ console' <= 1
       /\ \A d \in DOMAIN displayedWarning :
             displayedWarning[d] => displayedWarning'[d]]_vars

\* The operation of invocation i returned a promise that has not settled, and
\* the signal has not fired.
OpHanging(i) == inv[i].opP.st = "pending" /\ ~inv[i].signalAborted

\* The handle of invocation i has settled: unless a collaborator threw it
\* resolved, to an aborted event where `aborted` asks for one.
ResolvedWith(i, aborted) ==
    /\ Settled(inv[i].promise)
    /\ inv[i].threw = {} =>
          /\ inv[i].promise.st = "fulfilled"
          /\ aborted => /\ IsFailed(inv[i].promise.v)
                         /\ inv[i].promise.v.meta.aborted

\* C26: there is no internal timeout: while the operation's promise is
\* unsettled and the signal has not fired, the handle is unsettled and no
\* final event is dispatched; once abort() has fired the signal of an
\* invocation whose operation has not decided the race, the handle eventually
\* resolves to a failed event with meta.aborted = true; and once the
\* operation's promise has settled, or the gate's result is false, the handle
\* eventually resolves.
C26_NoTimeoutAndProgress ==
    /\ [](\A i \in Invocations :
            OpHanging(i) => (inv[i].promise.st = "pending" /\ FinalAt(i) = {}))
    /\ \A i \in Invocations :
          (inv[i].firedEarly /\ "payloadCreator" \notin inv[i].threw)
             ~> ResolvedWith(i, TRUE)
    /\ \A i \in Invocations :
          (Settled(inv[i].opP) \/ GateValue(inv[i]) = Bool(FALSE))
             ~> ResolvedWith(i, FALSE)

\* abort() fired while the operation's promise was pending; it never settled
\* and the handle resolved to the aborted event
C26_Witness ==
    \E i \in DOMAIN inv :
        /\ inv[i].firedEarly
        /\ inv[i].opP.st = "pending"
        /\ inv[i].promise.st = "fulfilled"
        /\ IsFailed(inv[i].promise.v)
        /\ inv[i].promise.v.meta.aborted

\* Invocation i is as it was constructed, but for its input: no request id,
\* gate and operation not called, nothing dispatched, no promise job queued.
Untouched(r, i, l, q) ==
    /\ [r EXCEPT !.pc = "new", !.arg = Undef] = NewInvocation
    /\ SelectSeq(l, LAMBDA e : e.by = i) = <<>>
    /\ JobsOf(q, i) = <<>>

\* C27: actionCreator(arg) only builds the callable: the step records the
\* input and changes nothing else, and until the callable is invoked the
\* invocation has no request id, its gate and operation have not been called
\* and nothing is dispatched or queued for it. Invoking the callable starts a
\* lifecycle of its own: a request id no other invocation has, a handle and a
\* cancellation promise of its own, and no change to any other invocation's
\* armed flag, signal, dispatches or jobs.
C27_BuildIsLazyCallIsOwn ==
    [][\A i \in DOMAIN inv :
         /\ (inv[i].pc = "new" /\ inv'[i].pc # "new") =>
               /\ inv'[i] = [inv[i] EXCEPT !.pc = "built", !.arg = inv'[i].arg]
               /\ inv'[i].arg # Undef
               /\ log' = log /\ queue' = queue
               /\ displayedWarning' = displayedWarning /\ console' = console
               /\ LocalTo(i)
         /\ inv'[i].pc \in {"new", "built"} => Untouched(inv'[i], i, log', queue')
         /\ (inv[i].pc = "built" /\ inv'[i].pc # "built") =>
               /\ LocalTo(i)
               /\ inv'[i].requestId # ""
               /\ \A j \in (DOMAIN inv) \ {i} :
                     inv'[i].requestId # inv'[j].requestId
               /\ inv'[i].promise # NoPromise
               /\ inv'[i].abortedPromise # NoPromise
               /\ inv'[i].arg = inv[i].arg]_vars

\* the callable of invocation 2 was invoked and its lifecycle ended, armed,
\* with both events dispatched, while the callable of invocation 1 was built
\* and never invoked
C27_Witness ==
    /\ DOMAIN inv = {1, 2}
    /\ inv[1].pc = "built"
    /\ inv[1].requestId = ""
    /\ inv[2].started
    /\ inv[2].promise.st = "fulfilled"
    /\ Len(EngineLog(2)) = 2
    /\ EngineLog(1) = <<>>

\* The last call was a call of the reducer that createReducer returned.
ReducerCalled ==
    /\ out # Undef
    /\ options.api = "createReducer"
    /\ out.call = "reducer"

\* The state the last reducer call started from.
Received ==
    IF out.state # Undef THEN out.state
    ELSE IF options.initialState.t = "function" THEN options.initialState.returns
         ELSE options.initialState

\* The case reducers registered for the action: the one registered under its
\* exact type, then those of the matchers that accept it, in registration
\* order; the default case reducer when there is none of these.
Registered(action) ==
    LET own == IF action.type \in DOMAIN options.actionsMap.f
               THEN <<options.actionsMap.f[action.type]>> ELSE <<>>
        accepting == SelectSeq(options.actionMatchers,
                               LAMBDA m : action.type \in m.matcher.accepts)
        ran == own \o [k \in 1..Len(accepting) |-> accepting[k].reducer]
    IN IF ran # <<>> THEN ran
       ELSE IF options.defaultCaseReducer # Undef
            THEN <<options.defaultCaseReducer>> ELSE <<>>

\* The state a case reducer of the model leaves.
After(cr, s) == IF cr.how = "nothing" THEN s ELSE Bump(s)

\* C28: a call of the reducer runs the case reducer registered for the
\* action's exact type (if any), then the reducer of every matcher accepting
\* the action, in registration order, each on the state the previous one
\* returned, and the default case reducer exactly when none of these ran;
\* a call that throws has run a prefix of them.
C28_CaseThenMatchersElseDefault ==
    ReducerCalled =>
        LET expected == Registered(out.action)
        IN /\ Len(calls) <= Len(expected)
           /\ ~out.threw => Len(calls) = Len(expected)
           /\ \A k \in 1..Len(calls) : calls[k].id = expected[k].id
           /\ calls # <<>> => calls[1].state = Received
           /\ \A k \in 1..(Len(calls) - 1) :
                 calls[k + 1].state = After(expected[k], calls[k].state)
           /\ (~out.threw /\ calls # <<>>) =>
                 out.v = After(expected[Len(calls)], calls[Len(calls)].state)
           /\ (~out.threw /\ calls = <<>>) => out.v = Received

\* The initial state given to createReducer or createSlice is a function.
Lazy == options.initialState.t = "function"

InitialValue == IF Lazy THEN options.initialState.returns ELSE options.initialState

\* C29: a reducer call with undefined as state starts from the initial state
\* and getInitialState() returns it; with a lazy initializer each of these
\* calls runs the initializer once more, and a reducer call with a defined
\* state starts from that state and does not run it.
C29_InitialStateWhenUndefined ==
    [][/\ reads' = reads + (IF Lazy /\ out'.state = Undef /\ _reducer' # Undef
                             THEN 1 ELSE 0)
       /\ (out'.call = "getInitialState" /\ ~out'.threw) => out'.v = InitialValue
       /\ out'.call = "reducer" =>
             LET start == IF out'.state = Undef THEN InitialValue ELSE out'.state
             IN /\ calls' # <<>> => calls'[1].state = start
                /\ (calls' = <<>> /\ ~out'.threw) => out'.v = start]_vars

\* the lazy initializer has run twice, and the last call, a reducer call with
\* a defined state, ran a case reducer on that state
C29_Witness ==
    /\ out # Undef
    /\ Lazy
    /\ reads = 2
    /\ out.call = "reducer"
    /\ out.state # Undef
    /\ calls # <<>>
    /\ calls[1].state = out.state
    /\ Count(out.state) > 0

\* extraReducers registers a case reducer for the type, in either notation.
ExtraRegisters(type) ==
    \/ /\ options.extraReducers.t = "object"
       /\ type \in DOMAIN options.extraReducers.f
    \/ /\ options.extraReducers.t = "function"
       /\ \E k \in DOMAIN options.extraReducers.builderCalls :
             /\ options.extraReducers.builderCalls[k].op = "addCase"
             /\ options.extraReducers.builderCalls[k].type = type

\* The case reducers extraReducers registers for the type.
ExtraIds(type) ==
    (IF options.extraReducers.t = "object" /\ type \in DOMAIN options.extraReducers.f
     THEN {options.extraReducers.f[type].id} ELSE {})
    \cup (IF options.extraReducers.t = "function"
          THEN {options.extraReducers.builderCalls[k].reducer.id :
                  k \in {n \in DOMAIN options.extraReducers.builderCalls :
                            /\ options.extraReducers.builderCalls[n].op = "addCase"
                            /\ options.extraReducers.builderCalls[n].type = type}}
          ELSE {})

\* C30: for every key K of `reducers` the slice has an action creator of type
\* `<name>/<K>`; building the slice's reducer never fails, also when
\* extraReducers registers one of these types; and a call of the slice's
\* reducer with an action of that type runs the case reducer given under K
\* first and never the one extraReducers registered for the type. (The
\* model's case reducers in `reducers` are named by their key.)
C30_SliceCaseReducerWins ==
    (out # Undef /\ options.api = "createSlice") =>
        /\ _reducer # Undef
        /\ DOMAIN actionCreators(options) = DOMAIN options.reducers
        /\ \A K \in DOMAIN options.reducers :
              /\ actionCreators(options)[K].type = options.name \o "/" \o K
              /\ CallActionCreator(actionCreators(options)[K], Num(1)).type
                    = options.name \o "/" \o K
              /\ (out.call = "reducer"
                    /\ out.action.type = options.name \o "/" \o K) =>
                    /\ ~out.threw
                    /\ calls # <<>>
                    /\ calls[1].id = K
                    /\ \A k \in DOMAIN calls :
                          calls[k].id \notin ExtraIds(out.action.type)

\* extraReducers registers counter/inc too; the action made by the slice's
\* action creator was reduced by the slice's own case reducer
C30_Witness ==
    /\ out # Undef
    /\ options.api = "createSlice"
    /\ ExtraRegisters(IncType)
    /\ out.call = "reducer"
    /\ out.action = CallActionCreator(actionCreators(options)["inc"], Num(1))
    /\ ~out.threw
    /\ calls[1].id = "inc"
    /\ Count(out.v) = Count(calls[1].state) + Len(calls)

\* The middleware an option stands for is wanted: the option is absent, true
\* or an options object, and the checks are wanted outside production only.
Wanted(id) ==
    CASE id = "thunk" -> options.thunk # Bool(FALSE)
      [] id = "immutableCheck" ->
            ~production /\ options.immutableCheck # Bool(FALSE)
      [] OTHER -> ~production /\ options.serializableCheck # Bool(FALSE)

\* C31: getDefaultMiddleware returns the wanted middleware in the order
\* immutable check, thunk, serializable check: all three outside production
\* with default options, thunk alone in production, and an option set to
\* false takes out exactly its middleware and leaves the order of the others.
C31_DefaultMiddlewareOrder ==
    (out # Undef /\ options.api = "getDefaultMiddleware") =>
        /\ [k \in DOMAIN out.v |-> out.v[k].id]
              = SelectSeq(<<"immutableCheck", "thunk", "serializableCheck">>, Wanted)
        /\ (options.thunk = Undef /\ options.immutableCheck = Undef
              /\ options.serializableCheck = Undef) =>
              Len(out.v) = IF production THEN 1 ELSE 3

\* outside production, with the serializable check set to false: the
\* immutable check, then thunk
C31_Witness ==
    /\ out # Undef
    /\ options.api = "getDefaultMiddleware"
    /\ ~production
    /\ options.serializableCheck = Bool(FALSE)
    /\ Len(out.v) = 2
    /\ out.v[1].id = "immutableCheck"
    /\ out.v[2].id = "thunk"

\* The dispatched events of invocation i that are final (not pending) and
\* carry the request id of the pending event dispatched for it.
FinalOfPending(i) ==
    {k \in FinalAt(i) :
        /\ log[k].action.type \in {"fetchUser/fulfilled", "fetchUser/rejected"}
        /\ \A p \in PendingAt(i) :
              log[k].action.meta.requestId = log[p].action.meta.requestId}

\* C32 as stated, in the form a finite run refutes: once the handle of an
\* invocation has settled the engine dispatches nothing more for it, so by
\* then a dispatched pending event has its one final event, succeeded or
\* failed, with the same request id, dispatched.
C32_PendingGetsFinal ==
    \A i \in DOMAIN inv :
        (PendingAt(i) # {} /\ Settled(inv[i].promise)) =>
            /\ Cardinality(FinalAt(i)) = 1
            /\ FinalOfPending(i) = FinalAt(i)

\* C32 amended: after pending has been dispatched, once the operation has
\* settled or the armed signal has fired the handle settles, and by then
\* exactly one final event with the same request id has been dispatched,
\* unless options.serializeError threw (no final event is built) or the
\* final event is a suppressed condition rejection (the operation threw or
\* rejected with a value named ConditionError): then none is dispatched.
FinalEventAccounted ==
    \A i \in DOMAIN inv :
        (PendingAt(i) # {} /\ Settled(inv[i].promise)) =>
            /\ FinalOfPending(i) = FinalAt(i)
            /\ IF inv[i].finalAction = Undef
               THEN "serializeError" \in inv[i].threw /\ FinalAt(i) = {}
               ELSE IF Suppressed(inv[i].finalAction)
                    THEN /\ FinalAt(i) = {}
                         /\ NameOf(inv[i].caught) = Str("ConditionError")
                    ELSE Cardinality(FinalAt(i)) = 1

\* C32 amended, with the progress it asserts: the accounting above always
\* holds, and a dispatched pending whose operation settled or whose armed
\* signal fired leads to a settled handle.
C32_PendingGetsFinalUnlessSuppressed ==
    /\ []FinalEventAccounted
    /\ \A i \in Invocations :
          (PendingAt(i) # {} /\ (Settled(inv[i].opP) \/ inv[i].signalAborted))
             ~> Settled(inv[i].promise)

\* pending was dispatched, the operation's promise rejected with a plain
\* error and the failed event with the same request id was dispatched
C32_Witness ==
    \E i \in DOMAIN inv :
        /\ PendingAt(i) # {}
        /\ inv[i].opP = Rejected(PlainError)
        /\ inv[i].promise.st = "fulfilled"
        /\ Cardinality(FinalAt(i)) = 1
        /\ \A k \in FinalAt(i) :
              /\ log[k].action.type = "fetchUser/rejected"
              /\ log[k].action.meta.requestId = inv[i].requestId

\* C33: per invocation the engine itself has dispatched at most one pending
\* event and at most one final event, never a pending event after the final
\* one, and never both a succeeded and a failed event.
C33_OnePendingOneFinal ==
    \A i \in DOMAIN inv :
        /\ Cardinality(PendingAt(i)) <= 1
        /\ Cardinality(FinalAt(i)) <= 1
        /\ \A p \in PendingAt(i) : \A f \in FinalAt(i) : p < f
        /\ ~(\E f, g \in FinalAt(i) :
                /\ log[f].action.type = "fetchUser/fulfilled"
                /\ log[g].action.type = "fetchUser/rejected")
        /\ \A f \in FinalAt(i) :
              log[f].action.type \in {"fetchUser/fulfilled", "fetchUser/rejected"}

\* abort() was called after the operation settled and lost the race: pending
\* and then the succeeded event are the engine's two dispatches
C33_Witness ==
    \E i \in DOMAIN inv :
        /\ inv[i].aborts > 0
        /\ inv[i].signalAborted
        /\ Len(EngineLog(i)) = 2
        /\ EngineLog(i)[1].action.type = "fetchUser/pending"
        /\ EngineLog(i)[2].action.type = "fetchUser/fulfilled"

\* The number of flags among aborted, condition and rejectedWithValue that
\* are true on the failed event a.
FlagsSet(a) ==
    Cardinality({f \in {"aborted", "condition", "rejectedWithValue"} : a.meta[f]})

\* C34: on every failed event of an invocation (dispatched, built as final
\* event or delivered by the handle) at most one of aborted, condition and
\* rejectedWithValue is true, and when the event was built from the explicit
\* failure wrapper aborted and condition are false, whatever the wrapper's
\* payload and metadata.
C34_FlagsExclusive ==
    \A i \in DOMAIN inv :
        /\ \A a \in {e \in EventsOf(i) : IsFailed(e)} : FlagsSet(a) <= 1
        /\ (inv[i].finalAction # Undef /\ inv[i].caught \in FailureWrappers) =>
              /\ IsFailed(inv[i].finalAction)
              /\ ~inv[i].finalAction.meta.aborted
              /\ ~inv[i].finalAction.meta.condition
              /\ inv[i].finalAction.meta.rejectedWithValue
                    = ~Falsy(inv[i].caught.payload)

\* the operation rejected with a wrapper whose metadata names aborted and
\* condition as true: the dispatched failed event has only rejectedWithValue
C34_Witness ==
    \E i \in DOMAIN inv :
        /\ inv[i].caught = RejectWithValue(Str("bad"), CallerMeta)
        /\ FinalAt(i) # {}
        /\ \A k \in FinalAt(i) :
              /\ log[k].action.meta.rejectedWithValue
              /\ ~log[k].action.meta.aborted
              /\ ~log[k].action.meta.condition
              /\ log[k].action.meta.extra = Num(1)

\* A step before the payload creator failed other than by the gate returning
\* false: `condition` threw, its promise rejected, or getPendingMeta threw.
FailedBeforeOp(r) ==
    r.threw \cap {"condition", "conditionPromise", "getPendingMeta"} # {}

\* C35 as stated: if a step before the operation fails other than by the gate
\* returning false, the operation is never invoked, no pending event is
\* dispatched, and the handle resolves to a failed event with
\* rejectedWithValue = false and condition = false that is dispatched
\* whatever dispatchConditionRejection is.
C35_EarlyFailureDispatched ==
    \A i \in DOMAIN inv :
        LET r == inv[i]
        IN (FailedBeforeOp(r) /\ Settled(r.promise)) =>
            /\ r.opCalls = 0
            /\ PendingAt(i) = {}
            /\ r.promise.st = "fulfilled"
            /\ IsFailed(r.promise.v)
            /\ ~r.promise.v.meta.rejectedWithValue
            /\ ~r.promise.v.meta.condition
            /\ Cardinality(FinalAt(i)) = 1
            /\ \A k \in FinalAt(i) : log[k].action = r.promise.v

\* C35 amended: after such a failure the operation is never invoked and no
\* pending event is dispatched; if options.serializeError throws the handle
\* fails and nothing is dispatched; otherwise the final event is the failed
\* event of the thrown value, with rejectedWithValue = false and condition
\* true exactly when the value is named ConditionError: with condition false
\* it is dispatched once whatever dispatchConditionRejection is, with
\* condition true it is suppressed like the gate's own rejection; the handle
\* resolves to it unless the store threw from that dispatch.
C35_EarlyFailureClassifiedByName ==
    \A i \in DOMAIN inv :
        LET r == inv[i]
            a == r.finalAction
        IN FailedBeforeOp(r) =>
            /\ r.opCalls = 0
            /\ PendingAt(i) = {}
            /\ Settled(r.promise)
            /\ IF "serializeError" \in r.threw
               THEN /\ r.promise = Rejected(SerializerError)
                    /\ FinalAt(i) = {}
               ELSE /\ a = rejected(r.caught, r.requestId, r.arg, Undef, Undef)
                    /\ ~a.meta.rejectedWithValue
                    /\ a.meta.condition = (NameOf(r.caught) = Str("ConditionError"))
                    /\ IF a.meta.condition /\ task.hasOptions
                             /\ ~task.dispatchConditionRejection
                       THEN FinalAt(i) = {} /\ r.promise = Fulfilled(a)
                       ELSE /\ Cardinality(FinalAt(i)) = 1
                            /\ \A k \in FinalAt(i) : log[k].action = a
                            /\ IF "dispatchFinal" \in r.threw
                               THEN r.promise = Rejected(DispatchError)
                               ELSE r.promise = Fulfilled(a)

\* getPendingMeta threw: no pending, no call of the operation, the failed
\* event dispatched although dispatchConditionRejection is not set
C35_Witness ==
    \E i \in DOMAIN inv :
        /\ "getPendingMeta" \in inv[i].threw
        /\ ~task.dispatchConditionRejection
        /\ inv[i].opCalls = 0
        /\ Len(EngineLog(i)) = 1
        /\ inv[i].promise.st = "fulfilled"
        /\ EngineLog(i)[1].action = inv[i].promise.v
        /\ ~inv[i].promise.v.meta.condition

\* The race of the invocation is decided: its final event is built or its
\* handle has settled.
Decided(r) == r.finalAction # Undef \/ Settled(r.promise)

\* what unwrap() delivers for a settled handle
Delivered(p) ==
    IF p.st = "rejected" THEN Rejected(p.v)
    ELSE IF IsFailed(p.v)
         THEN Rejected(IF p.v.meta.rejectedWithValue THEN p.v.payload ELSE p.v.error)
         ELSE Fulfilled(p.v.payload)

\* C36: a call of abort() after the race has been decided dispatches nothing
\* and leaves the final event, the handle and the promise of unwrap() as they
\* are; unwrap() delivers what the settled handle determines, whatever
\* abort() calls were made.
C36_AbortAfterDecisionInert ==
    [][\A i \in DOMAIN inv :
          /\ (Decided(inv[i]) /\ inv'[i].aborts > inv[i].aborts) =>
                /\ log' = log
                /\ inv'[i].finalAction = inv[i].finalAction
                /\ inv'[i].promise = inv[i].promise
                /\ inv'[i].unwrapP = inv[i].unwrapP
          /\ Decided(inv[i]) =>
                /\ inv'[i].finalAction = inv[i].finalAction
                /\ inv'[i].promise = inv[i].promise
                /\ EngineLog(i)' = EngineLog(i)
                /\ Settled(inv'[i].unwrapP) =>
                      inv'[i].unwrapP = Delivered(inv[i].promise)]_vars

\* abort('timeout') was called after the succeeded event was built and fired
\* the signal; the handle and unwrap() deliver the operation's value
C36_Witness ==
    \E i \in DOMAIN inv :
        /\ inv[i].abortedLate
        /\ inv[i].signalAborted
        /\ inv[i].firedBy = Str("timeout")
        /\ inv[i].promise.st = "fulfilled"
        /\ inv[i].promise.v.type = "fetchUser/fulfilled"
        /\ inv[i].unwrapP = Fulfilled(inv[i].promise.v.payload)
        /\ Len(EngineLog(i)) = 2

\* the failed event of a cancellation with the given reason
AbortedEvent(r, reason) ==
    rejected(AbortRejection(reason), r.requestId, r.arg, Undef, Undef)

\* The context of the payload creator carries the request id of the handle
\* and of every event, and its signal and abort are the invocation's own.
ContextOfInvocation(i) ==
    inv[i].opCalls > 0 =>
        /\ inv[i].api.requestId = inv[i].requestId
        /\ \A a \in EventsOf(i) : a.meta.requestId = inv[i].api.requestId
        /\ inv[i].api.abort = i /\ inv[i].api.signal = i
        /\ inv[i].selfAbort =>
              /\ inv[i].abortReason # Undef \/ inv[i].aborts > 0
              /\ native => inv[i].signalAborted /\ inv[i].firedBy = Str("self")

Text(x) ==
    CASE x = Undef -> "undefined"
      [] x = Null -> "null"
      [] x = Num(0) -> "0"
      [] x = Num(7) -> "7"
      [] x = Bool(TRUE) -> "true"
      [] x = Bool(FALSE) -> "false"
      [] x = Str("") -> ""
      [] OTHER -> "oops"

\* C38: miniSerializeError is idempotent, serializing a serialized error
\* gives that serialized error again, and for a thrown value that is not an
\* object, or is null, the result is exactly {message: String(x)}.
C38_SerializeIdempotent ==
    (out # Undef /\ options.api = "miniSerializeError") =>
        /\ reads > 1 => out.v = out.arg
        /\ (reads = 1 /\ state \in ThrownPrimitives) =>
              out.v = Obj([message |-> Str(Text(state))])
        /\ miniSerializeError(miniSerializeError(state)) = miniSerializeError(state)

\* the number 7 was thrown and serialized twice: {message: '7'} both times
C38_Witness ==
    /\ options.api = "miniSerializeError"
    /\ state = Num(7)
    /\ reads = 2
    /\ out.arg = Obj([message |-> Str("7")])
    /\ out.v = Obj([message |-> Str("7")])

\* an object with a numeric code and a property of its own was serialized
\* twice: only the string properties are kept, and the result is stable
C38_WitnessObject ==
    /\ options.api = "miniSerializeError"
    /\ state = Obj([name |-> Str("name"), code |-> Num(42), status |-> Num(42)])
    /\ reads = 2
    /\ out.v = Obj([name |-> Str("name")])

\* C39: the slice reducer is built lazily and at most once. Before the first
\* call of slice.reducer or slice.getInitialState nothing is built (and
\* extraReducers, which only buildReducer evaluates, is not evaluated); the
\* first call builds the reducer, every later call reuses it; with a lazy
\* initial state each getInitialState() runs the initializer once more and
\* returns its value.
C39_BuiltLazilyOnce ==
    [][options.api = "createSlice" =>
          /\ out = Undef => (builds = 0 /\ _reducer = Undef)
          /\ builds' = IF out = Undef THEN 1 ELSE builds
          /\ builds' <= 1
          /\ _reducer' = buildReducer(options).v
          /\ out # Undef => _reducer' = _reducer
          /\ (Lazy /\ out'.call = "getInitialState") =>
                /\ reads' = reads + 1
                /\ out'.v = options.initialState.returns]_vars

\* a slice with a builder callback as extraReducers and a lazy initial state
\* was called three times, getInitialState() last: one build, three runs of
\* the initializer
C39_Witness ==
    /\ options.api = "createSlice"
    /\ options.extraReducers.t = "function"
    /\ Lazy
    /\ builds = 1
    /\ reads = 3
    /\ out.call = "getInitialState"
    /\ out.v = CounterObject
    /\ _reducer # Undef

====
